---- MODULE Spec2Model ----
(***************************************************************************)
(* Verification model of the data-access layer of the football-predictions *)
(* dashboard (src/db.py) and of the display helpers of src/app.py that     *)
(* consume its results.                                                    *)
(*                                                                         *)
(* The relational store is external: its tables are state the environment  *)
(* owns, and the connection may be up or down at every query.              *)
(***************************************************************************)
EXTENDS Integers, Sequences, FiniteSets, TLC

VARIABLES
    dbUp,       \* psycopg2.connect succeeds at this moment
    raw,        \* model_raw_data: a bag (record -> number of such rows)
    preds,      \* enhanced_predictions: a set of prediction rows
    matches,    \* raw_data: a bag of played matches (season, FTHG, FTAG)
    pc,         \* position inside get_enhanced_predictions ("idle" between calls)
    ep,         \* locals of the running get_enhanced_predictions call
    call,       \* the last completed call: function, arguments, queries, result
    notices,    \* st.error notifications emitted by the last completed call
    chart,      \* percentages create_home_away_draw_chart last put in its labels
    conns,      \* number of connections to the store that are open
    launch,     \* the launcher script (launch.py or run.py): its environment and position
    cache,      \* st.cache_data: the memoized results and their ages
    now,        \* the clock of st.cache_data, in ticks
    app         \* the browser session of app.py: st.session_state, the widgets, the run of main

vars == <<dbUp, raw, matches, preds, pc, ep, call, notices, chart, conns, launch, cache, now, app>>

----------------------------------------------------------------------------
(* Bounds of the model *)

MaxSel == 2          \* longest multi-select list passed as a filter
MaxCount == 6        \* most rows of one result (H, A or D) in model_raw_data
MaxSession == 3      \* most prediction sessions the environment inserts

----------------------------------------------------------------------------
(* Values of the store *)

NULL == "NULL"
Results == {"H", "A", "D"}

\* ISO date strings compare by their position in the calendar
DateOrd(d) == CASE d = "D1" -> 1 [] d = "D2" -> 2 [] d = "D3" -> 3 [] OTHER -> 0

----------------------------------------------------------------------------
(* Python values of the optional filter arguments: None, a str, or a list *)

PyNone == [t |-> "none", s |-> "", l |-> <<>>]
PyStr(x) == [t |-> "str", s |-> x, l |-> <<>>]
PyList(q) == [t |-> "list", s |-> "", l |-> q]

\* name = value: the value is computed where it is assigned and the rest of
\* the function body reads the name
Let(value, Rest(_)) == Rest(value)

\* variant: `if x is not None:` in place of `if x:`
TruthyNotNone(x) == x.t # "none"

\* Python truthiness: `if x:`
Truthy(x) ==
    CASE x.t = "none" -> FALSE
      [] x.t = "str" -> x.s # ""
      [] x.t = "list" -> x.l # <<>>

IsList(x) == x.t = "list"
IsStr(x) == x.t = "str"

\* the selections of a multi-select: distinct options, at most n of them
SeqsUpTo(S, n) ==
    UNION {{q \in [1..k -> S] : \A i, j \in 1..k : i # j => q[i] # q[j]} : k \in 0..n}

\* every value a scalar-or-list filter argument can take over the values S
FilterValues(S) ==
    {PyNone, PyStr("")} \cup {PyStr(v) : v \in S} \cup {PyList(q) : q \in SeqsUpTo(S, MaxSel)}

DateValues == {PyNone, PyStr("")} \cup {PyStr(d) : d \in {"D2"}}

FilterSets ==
    [league : FilterValues({"L1"}), season : FilterValues({"S1"}),
     team : FilterValues({"T1", "T2"}), date_from : DateValues, date_to : DateValues]

NoFilters ==
    [league |-> PyNone, season |-> PyNone, team |-> PyNone,
     date_from |-> PyNone, date_to |-> PyNone]

----------------------------------------------------------------------------
(* SQL text as tokens: keywords/columns, %s placeholders, bound literals *)

KW(x) == [k |-> "kw", v |-> x]
PH == [k |-> "ph", v |-> "%s"]
Lit(x) == [k |-> "lit", v |-> x]

\* ','.join(['%s'] * n)
Placeholders(n) == [i \in 1..n |-> PH]

\* f'"col" IN ({placeholders})'
InFragment(col, n) == <<KW(col), KW("IN"), KW("(")>> \o Placeholders(n) \o <<KW(")")>>

\* '"col" op %s'
CmpFragment(col, op) == <<KW(col), KW(op), PH>>

\* variant: the team predicate without its enclosing parentheses
TeamInFragmentBare(n) == InFragment("HT", n) \o <<KW("OR")>> \o InFragment("AT", n)

\* f'("HT" IN ({placeholders}) OR "AT" IN ({placeholders}))'
TeamInFragment(n) ==
    <<KW("(")>> \o InFragment("HT", n) \o <<KW("OR")>> \o InFragment("AT", n) \o <<KW(")")>>

\* '("HT" = %s OR "AT" = %s)'
TeamEqFragment ==
    <<KW("(")>> \o CmpFragment("HT", "=") \o <<KW("OR")>> \o CmpFragment("AT", "=") \o <<KW(")")>>

\* " AND ".join(conds)
RECURSIVE JoinAnd(_)
JoinAnd(conds) ==
    IF conds = <<>> THEN <<>>
    ELSE IF Len(conds) = 1 THEN conds[1]
    ELSE conds[1] \o <<KW("AND")>> \o JoinAnd(Tail(conds))

\* where_clause = " AND " + " AND ".join(where_conditions) if where_conditions else ""
WhereClause(conds) == IF conds # <<>> THEN <<KW("AND")>> \o JoinAnd(conds) ELSE <<>>

\* where_conditions = [] ; params = []
NoBuild == [conds |-> <<>>, params |-> <<>>]

\* where_conditions.append(frag) ; params.extend(ps)
Add(b, frag, ps) == [conds |-> Append(b.conds, frag), params |-> b.params \o ps]

\* variant: params.extend(team_filter)
TeamListParamsOnce(q) == q

\* params.extend(team_filter + team_filter): the teams once for HT, once for AT
TeamListParams(q) == q \o q

\* params.extend([team_filter, team_filter])
TeamStrParams(x) == <<x, x>>

----------------------------------------------------------------------------
(* The filter-building step, as written in each raw-data aggregation function *)

\* get_raw_data_key_metrics
KeyMetricsBuild(f) ==
    Let(IF Truthy(f.league)
        THEN IF IsList(f.league) /\ Truthy(f.league)
             THEN Add(NoBuild, InFragment("League", Len(f.league.l)), f.league.l)
             ELSE IF IsStr(f.league)
                  THEN Add(NoBuild, CmpFragment("League", "="), <<f.league.s>>)
                  ELSE NoBuild
        ELSE NoBuild, LAMBDA b1 :
    Let(IF Truthy(f.season)
        THEN IF IsList(f.season) /\ Truthy(f.season)
             THEN Add(b1, InFragment("Season", Len(f.season.l)), f.season.l)
             ELSE IF IsStr(f.season)
                  THEN Add(b1, CmpFragment("Season", "="), <<f.season.s>>)
                  ELSE b1
        ELSE b1, LAMBDA b2 :
    Let(IF Truthy(f.team)
        THEN IF IsList(f.team) /\ Truthy(f.team)
             THEN Add(b2, TeamInFragment(Len(f.team.l)), TeamListParams(f.team.l))
             ELSE IF IsStr(f.team)
                  THEN Add(b2, TeamEqFragment, TeamStrParams(f.team.s))
                  ELSE b2
        ELSE b2, LAMBDA b3 :
    Let(IF Truthy(f.date_from)
        THEN Add(b3, CmpFragment("GameDate", ">="), <<f.date_from.s>>)
        ELSE b3, LAMBDA b4 :
    Let(IF Truthy(f.date_to)
        THEN Add(b4, CmpFragment("GameDate", "<="), <<f.date_to.s>>)
        ELSE b4, LAMBDA b5 : b5)))))

\* get_raw_data_analytics
AnalyticsBuild(f) ==
    Let(IF Truthy(f.league)
        THEN IF IsList(f.league) /\ Truthy(f.league)
             THEN Add(NoBuild, InFragment("League", Len(f.league.l)), f.league.l)
             ELSE IF IsStr(f.league)
                  THEN Add(NoBuild, CmpFragment("League", "="), <<f.league.s>>)
                  ELSE NoBuild
        ELSE NoBuild, LAMBDA b1 :
    Let(IF Truthy(f.season)
        THEN IF IsList(f.season) /\ Truthy(f.season)
             THEN Add(b1, InFragment("Season", Len(f.season.l)), f.season.l)
             ELSE IF IsStr(f.season)
                  THEN Add(b1, CmpFragment("Season", "="), <<f.season.s>>)
                  ELSE b1
        ELSE b1, LAMBDA b2 :
    Let(IF Truthy(f.team)
        THEN IF IsList(f.team) /\ Truthy(f.team)
             THEN Add(b2, TeamInFragment(Len(f.team.l)), TeamListParams(f.team.l))
             ELSE IF IsStr(f.team)
                  THEN Add(b2, TeamEqFragment, TeamStrParams(f.team.s))
                  ELSE b2
        ELSE b2, LAMBDA b3 :
    Let(IF Truthy(f.date_from)
        THEN Add(b3, CmpFragment("GameDate", ">="), <<f.date_from.s>>)
        ELSE b3, LAMBDA b4 :
    Let(IF Truthy(f.date_to)
        THEN Add(b4, CmpFragment("GameDate", "<="), <<f.date_to.s>>)
        ELSE b4, LAMBDA b5 : b5)))))

\* variant: the step without the date_to filter
GoalsShotsBuildNoDateTo(f) ==
    Let(IF Truthy(f.league)
        THEN IF IsList(f.league) /\ Truthy(f.league)
             THEN Add(NoBuild, InFragment("League", Len(f.league.l)), f.league.l)
             ELSE IF IsStr(f.league)
                  THEN Add(NoBuild, CmpFragment("League", "="), <<f.league.s>>)
                  ELSE NoBuild
        ELSE NoBuild, LAMBDA b1 :
    Let(IF Truthy(f.season)
        THEN IF IsList(f.season) /\ Truthy(f.season)
             THEN Add(b1, InFragment("Season", Len(f.season.l)), f.season.l)
             ELSE IF IsStr(f.season)
                  THEN Add(b1, CmpFragment("Season", "="), <<f.season.s>>)
                  ELSE b1
        ELSE b1, LAMBDA b2 :
    Let(IF Truthy(f.team)
        THEN IF IsList(f.team) /\ Truthy(f.team)
             THEN Add(b2, TeamInFragment(Len(f.team.l)), TeamListParams(f.team.l))
             ELSE IF IsStr(f.team)
                  THEN Add(b2, TeamEqFragment, TeamStrParams(f.team.s))
                  ELSE b2
        ELSE b2, LAMBDA b3 :
    Let(IF Truthy(f.date_from)
        THEN Add(b3, CmpFragment("GameDate", ">="), <<f.date_from.s>>)
        ELSE b3, LAMBDA b4 : b4))))

\* get_goals_shots_filtered_data
GoalsShotsBuild(f) ==
    Let(IF Truthy(f.league)
        THEN IF IsList(f.league) /\ Truthy(f.league)
             THEN Add(NoBuild, InFragment("League", Len(f.league.l)), f.league.l)
             ELSE IF IsStr(f.league)
                  THEN Add(NoBuild, CmpFragment("League", "="), <<f.league.s>>)
                  ELSE NoBuild
        ELSE NoBuild, LAMBDA b1 :
    Let(IF Truthy(f.season)
        THEN IF IsList(f.season) /\ Truthy(f.season)
             THEN Add(b1, InFragment("Season", Len(f.season.l)), f.season.l)
             ELSE IF IsStr(f.season)
                  THEN Add(b1, CmpFragment("Season", "="), <<f.season.s>>)
                  ELSE b1
        ELSE b1, LAMBDA b2 :
    Let(IF Truthy(f.team)
        THEN IF IsList(f.team) /\ Truthy(f.team)
             THEN Add(b2, TeamInFragment(Len(f.team.l)), TeamListParams(f.team.l))
             ELSE IF IsStr(f.team)
                  THEN Add(b2, TeamEqFragment, TeamStrParams(f.team.s))
                  ELSE b2
        ELSE b2, LAMBDA b3 :
    Let(IF Truthy(f.date_from)
        THEN Add(b3, CmpFragment("GameDate", ">="), <<f.date_from.s>>)
        ELSE b3, LAMBDA b4 :
    Let(IF Truthy(f.date_to)
        THEN Add(b4, CmpFragment("GameDate", "<="), <<f.date_to.s>>)
        ELSE b4, LAMBDA b5 : b5)))))

\* get_league_goals_shots_analytics
LeagueGoalsShotsBuild(f) ==
    Let(IF Truthy(f.league)
        THEN IF IsList(f.league) /\ Truthy(f.league)
             THEN Add(NoBuild, InFragment("League", Len(f.league.l)), f.league.l)
             ELSE IF IsStr(f.league)
                  THEN Add(NoBuild, CmpFragment("League", "="), <<f.league.s>>)
                  ELSE NoBuild
        ELSE NoBuild, LAMBDA b1 :
    Let(IF Truthy(f.season)
        THEN IF IsList(f.season) /\ Truthy(f.season)
             THEN Add(b1, InFragment("Season", Len(f.season.l)), f.season.l)
             ELSE IF IsStr(f.season)
                  THEN Add(b1, CmpFragment("Season", "="), <<f.season.s>>)
                  ELSE b1
        ELSE b1, LAMBDA b2 :
    Let(IF Truthy(f.team)
        THEN IF IsList(f.team) /\ Truthy(f.team)
             THEN Add(b2, TeamInFragment(Len(f.team.l)), TeamListParams(f.team.l))
             ELSE IF IsStr(f.team)
                  THEN Add(b2, TeamEqFragment, TeamStrParams(f.team.s))
                  ELSE b2
        ELSE b2, LAMBDA b3 :
    Let(IF Truthy(f.date_from)
        THEN Add(b3, CmpFragment("GameDate", ">="), <<f.date_from.s>>)
        ELSE b3, LAMBDA b4 :
    Let(IF Truthy(f.date_to)
        THEN Add(b4, CmpFragment("GameDate", "<="), <<f.date_to.s>>)
        ELSE b4, LAMBDA b5 : b5)))))

\* variant: get_league_table testing each filter with `is not None`
LeagueTableBuildNotNone(f) ==
    Let(IF f.league.t # "none"
        THEN Add(NoBuild, InFragment("league", Len(f.league.l)), f.league.l)
        ELSE NoBuild, LAMBDA b1 :
    Let(IF f.season.t # "none"
        THEN Add(b1, InFragment("season", Len(f.season.l)), f.season.l)
        ELSE b1, LAMBDA b2 :
    Let(IF f.team.t # "none"
        THEN Add(b2, InFragment("team", Len(f.team.l)), f.team.l)
        ELSE b2, LAMBDA b3 : b3)))

\* get_league_table: query += f" AND col IN ({placeholders})" ; params.extend(...)
LeagueTableBuild(f) ==
    Let(IF Truthy(f.league)
        THEN Add(NoBuild, InFragment("league", Len(f.league.l)), f.league.l)
        ELSE NoBuild, LAMBDA b1 :
    Let(IF Truthy(f.season)
        THEN Add(b1, InFragment("season", Len(f.season.l)), f.season.l)
        ELSE b1, LAMBDA b2 :
    Let(IF Truthy(f.team)
        THEN Add(b2, InFragment("team", Len(f.team.l)), f.team.l)
        ELSE b2, LAMBDA b3 : b3)))

----------------------------------------------------------------------------
(* The relational store as the queries see it *)

\* a row of model_raw_data; goals = HT_Score + AT_Score, shots = HT_Shots + AT_Shots;
\* AvgH, AvgD, AvgA are the market odds, a number or no number at all
RawRow(lg, se, ht, at, d, res, g, sh) ==
    [League |-> lg, Season |-> se, HT |-> ht, AT |-> at, GameDate |-> d,
     RESULT |-> res, goals |-> g, shots |-> sh,
     AvgH |-> [null |-> FALSE, n |-> 2, d |-> 1],
     AvgD |-> [null |-> FALSE, n |-> 3, d |-> 1],
     AvgA |-> [null |-> FALSE, n |-> 5, d |-> 1]]

\* the row with odds columns that hold no number ("AvgH"::TEXT ~ '^[0-9]+...' fails)
NoOdds(r) ==
    [r EXCEPT !.AvgH = [null |-> TRUE, n |-> 0, d |-> 1],
              !.AvgD = [null |-> TRUE, n |-> 0, d |-> 1],
              !.AvgA = [null |-> TRUE, n |-> 0, d |-> 1]]

\* a row of enhanced_predictions
PredRow(sid, lg, ht, at, d, m) ==
    [session_id |-> sid, league |-> lg, home_team |-> ht, away_team |-> at,
     game_date |-> d, model |-> m]

\* team_statistics does not change while the dashboard runs
TeamStatistics ==
    {[team |-> "T1", league |-> "L1", season |-> "S1", league_rank |-> 1],
     [team |-> "T2", league |-> "L1", season |-> "S1", league_rank |-> 2],
     [team |-> "T1", league |-> "L2", season |-> "S2", league_rank |-> 1]}

\* number of rows of the bag b among the row values S: COUNT(*)
RECURSIVE BagSum(_, _)
BagSum(b, S) ==
    IF S = {} THEN 0
    ELSE LET r == CHOOSE x \in S : TRUE
         IN  b[r] + BagSum(b, S \ {r})

\* the distinct row values present in the bag
Support(b) == {r \in DOMAIN b : b[r] > 0}

\* a query: the template it was written from and, in textual order, the token
\* runs of its WHERE clauses and of its LIMIT (the only places a %s
\* placeholder can stand)
Query(tpl, parts) == [tpl |-> tpl, parts |-> parts]

RECURSIVE CountPH(_)
CountPH(toks) ==
    IF toks = <<>> THEN 0
    ELSE (IF toks[1].k = "ph" THEN 1 ELSE 0) + CountPH(Tail(toks))

RECURSIVE FlatParts(_)
FlatParts(parts) == IF parts = <<>> THEN <<>> ELSE parts[1] \o FlatParts(Tail(parts))

\* number of %s placeholders in the final query text
NumPlaceholders(q) == CountPH(FlatParts(q.parts))

\* psycopg2 binds the k-th placeholder to the k-th parameter
RECURSIVE BindTokens(_, _, _)
BindTokens(toks, params, k) ==
    IF toks = <<>> THEN <<>>
    ELSE IF toks[1].k = "ph"
         THEN <<Lit(params[k])>> \o BindTokens(Tail(toks), params, k + 1)
         ELSE <<toks[1]>> \o BindTokens(Tail(toks), params, k)

RECURSIVE BindParts(_, _, _)
BindParts(parts, params, k) ==
    IF parts = <<>> THEN <<>>
    ELSE <<BindTokens(parts[1], params, k)>>
         \o BindParts(Tail(parts), params, k + CountPH(parts[1]))

\* split a token run at the top-level occurrences of the keyword sep
RECURSIVE SplitTop(_, _, _, _, _, _)
SplitTop(toks, sep, i, depth, cur, acc) ==
    IF i > Len(toks) THEN Append(acc, cur)
    ELSE LET t == toks[i]
             isKw == t.k = "kw"
         IN  IF isKw /\ depth = 0 /\ t.v = sep
             THEN SplitTop(toks, sep, i + 1, depth, <<>>, Append(acc, cur))
             ELSE SplitTop(toks, sep, i + 1,
                           IF isKw /\ t.v = "(" THEN depth + 1
                           ELSE IF isKw /\ t.v = ")" THEN depth - 1 ELSE depth,
                           Append(cur, t), acc)

Split(toks, sep) == SplitTop(toks, sep, 1, 0, <<>>, <<>>)

Parenthesised(toks) ==
    /\ Len(toks) >= 2
    /\ toks[1].k = "kw" /\ toks[1].v = "("
    /\ toks[Len(toks)].k = "kw" /\ toks[Len(toks)].v = ")"

\* the literals of an IN list: tokens 4 .. Len-1 of  col IN ( v , ... )
InList(toks) == {toks[i].v : i \in 4..(Len(toks) - 1)}

\* integer columns of the store; they hold no NULL
IntColumns == {"session_id", "league_rank"}

\* a comparison; a NULL operand makes it unknown, which a WHERE treats as false
Atom(toks, r) ==
    LET head == toks[1].v
    IN  IF head = "1=1" THEN TRUE
        ELSE IF head = "RESULT_IN_HDA" THEN r["RESULT"] \in Results
        ELSE IF head = "League_NOT_NULL" THEN r["League"] # NULL
        ELSE LET op == toks[2].v
                 x == r[head]
             IN  /\ (head \in IntColumns \/ x # NULL)
                 /\ CASE op = "IN" -> x \in InList(toks)
                      [] op = "=" -> x = toks[3].v
                      [] op = ">=" -> DateOrd(x) >= DateOrd(toks[3].v)
                      [] op = "<=" -> DateOrd(x) <= DateOrd(toks[3].v)
                      [] OTHER -> FALSE

\* the structure of a WHERE text: OR binds weaker than AND, and a
\* parenthesised group is a disjunction of comparisons.  The result is a
\* sequence of terms, each a sequence of factors, each a sequence of atoms
ParseFactor(toks) ==
    IF Parenthesised(toks) THEN Split(SubSeq(toks, 2, Len(toks) - 1), "OR") ELSE <<toks>>

ParseTerm(toks) ==
    Let(Split(toks, "AND"), LAMBDA fs : [i \in DOMAIN fs |-> ParseFactor(fs[i])])

Parse(toks) ==
    IF toks = <<>> THEN <<>>
    ELSE Let(Split(toks, "OR"), LAMBDA ts : [i \in DOMAIN ts |-> ParseTerm(ts[i])])

\* does the row r satisfy the parsed WHERE (no text: every row does)
Eval(p, r) ==
    \/ Len(p) = 0
    \/ \E i \in DOMAIN p : \A j \in DOMAIN p[i] : \E k \in DOMAIN p[i][j] : Atom(p[i][j][k], r)

\* the rows of S the bound WHERE text selects
Select(toks, S) == Let(Parse(toks), LAMBDA p : {r \in S : Eval(p, r)})

\* the columns a token run names, and whether each IN list is non-empty
RECURSIVE WellFormed(_, _, _)
WellFormed(toks, cols, i) ==
    IF i > Len(toks) THEN TRUE
    ELSE LET t == toks[i]
         IN  /\ (t.k = "kw" /\ i < Len(toks) /\ toks[i + 1].k = "kw"
                   /\ toks[i + 1].v \in {"IN", "=", ">=", "<="}) => t.v \in cols
             /\ (t.k = "kw" /\ t.v = "IN") => toks[i + 2].k # "kw"
             /\ WellFormed(toks, cols, i + 1)

----------------------------------------------------------------------------
(* Result sets of the query templates *)

\* SQL integers and aggregates that may be NULL
SqlNull == [null |-> TRUE, n |-> 0, d |-> 1]
SqlInt(x) == [null |-> FALSE, n |-> x, d |-> 1]
\* an exact quotient n/d, as AVG yields it
SqlAvg(n, d) == IF d = 0 THEN SqlNull ELSE [null |-> FALSE, n |-> n, d |-> d]

RECURSIVE BagFieldSum(_, _, _)
BagFieldSum(b, S, fld) ==
    IF S = {} THEN 0
    ELSE LET r == CHOOSE x \in S : TRUE
         IN  b[r] * r[fld] + BagFieldSum(b, S \ {r}, fld)

\* AVG(CASE WHEN ... THEN col::NUMERIC ELSE NULL END) over the rows S: the
\* rows whose column holds no number do not count; NULL when none counts
RECURSIVE BagOddsSum(_, _, _)
BagOddsSum(b, S, fld) ==
    IF S = {} THEN 0
    ELSE LET r == CHOOSE x \in S : TRUE
         IN  b[r] * r[fld].n + BagOddsSum(b, S \ {r}, fld)

OddsAvg(b, S, fld) ==
    Let({r \in S : ~r[fld].null}, LAMBDA num : SqlAvg(BagOddsSum(b, num, fld), BagSum(b, num)))

RECURSIVE SetMax(_)
SetMax(S) ==
    LET x == CHOOSE y \in S : TRUE
    IN  IF S = {x} THEN x
        ELSE LET m == SetMax(S \ {x}) IN IF x > m THEN x ELSE m

\* position of a value in the collation order of its column
Ord(v) ==
    CASE v \in {"L1", "S1", "T1", "D1", "M1"} -> 1
      [] v \in {"L2", "S2", "T2", "D2", "M2"} -> 2
      [] v \in {"T3", "D3"} -> 3
      [] OTHER -> 9

\* the values S as the rows of a one-column result, ascending or descending
OrderedBy(S, desc) ==
    CHOOSE q \in [1..Cardinality(S) -> S] :
        /\ \A i, j \in DOMAIN q : i # j => q[i] # q[j]
        /\ \A i, j \in DOMAIN q :
             i < j => IF desc THEN Ord(q[i]) >= Ord(q[j]) ELSE Ord(q[i]) <= Ord(q[j])

\* WHERE "RESULT" IN ('H', 'D', 'A')
RawBase == <<KW("RESULT_IN_HDA")>>

\* WHERE "RESULT" IN ('H', 'D', 'A') AND "League" IS NOT NULL
LeagueBase == <<KW("RESULT_IN_HDA"), KW("AND"), KW("League_NOT_NULL")>>

RawColumns == {"League", "Season", "HT", "AT", "GameDate", "RESULT"}
PredColumns == {"session_id", "league", "home_team", "away_team", "game_date", "model"}
StatColumns == {"team", "league", "season", "league_rank"}

\* the table a template reads: its columns
Columns(tpl) ==
    CASE tpl \in {"key_metrics", "teams_count", "analytics", "goals_shots",
                  "league_goals_shots", "raw_leagues", "raw_seasons", "raw_teams"}
           -> RawColumns
      [] tpl \in {"session_max", "enhanced", "avail_teams", "avail_leagues", "avail_models"}
           -> PredColumns
      [] tpl \in {"league_table", "lt_leagues", "lt_seasons", "lt_teams",
                  "latest_season", "team_stats"}
           -> StatColumns
      [] tpl = "league_statistics" -> {"Season", "FTHG", "FTAG"}
      [] tpl = "recent_matches" -> PredColumns
      [] tpl = "model_performance" -> {"Model", "Confidence_Score", "Predicted_RESULT"}
      [] tpl = "teams_coords" -> {"team", "longitude", "latitude"}
      [] OTHER -> {}

KnownTemplate(tpl) == Columns(tpl) # {}

\* the rows of model_raw_data (as distinct values) a bound WHERE selects
RawSel(where) == Select(where, Support(raw))

\* percentage count * 100 / total rounded by SQL ROUND(numeric, places):
\* half away from zero, in units of 10^-places
SqlRound(n, d, scale) == (2 * n * scale + d) \div (2 * d)

\* SELECT COUNT(*), COUNT(DISTINCT "League"), COUNT(DISTINCT "Season")
KeyMetricsRows(where) ==
    Let(RawSel(where), LAMBDA sel :
        <<[total_games |-> BagSum(raw, sel),
           total_leagues |-> Cardinality({r.League : r \in sel} \ {NULL}),
           total_seasons |-> Cardinality({r.Season : r \in sel} \ {NULL})]>>)

\* SELECT COUNT(*) FROM (SELECT "HT" ... UNION SELECT "AT" ...)
TeamsCountRows(where1, where2) ==
    <<[total_teams |-> Cardinality({r.HT : r \in RawSel(where1)}
                                    \cup {r.AT : r \in RawSel(where2)})]>>

\* SELECT COUNT(CASE WHEN "RESULT" = 'H' ...), ..., COUNT(*), AVG(...)
AnalyticsRows(where) ==
    Let(RawSel(where), LAMBDA sel :
    Let(BagSum(raw, sel), LAMBDA n :
        <<[home_wins |-> BagSum(raw, {r \in sel : r.RESULT = "H"}),
           away_wins |-> BagSum(raw, {r \in sel : r.RESULT = "A"}),
           draws |-> BagSum(raw, {r \in sel : r.RESULT = "D"}),
           total_games |-> n,
           avg_goals |-> SqlAvg(BagFieldSum(raw, sel, "goals"), n),
           avg_shots |-> SqlAvg(BagFieldSum(raw, sel, "shots"), n),
           avg_winning_home_odds |-> OddsAvg(raw, {r \in sel : r.RESULT = "H"}, "AvgH"),
           avg_winning_draw_odds |-> OddsAvg(raw, {r \in sel : r.RESULT = "D"}, "AvgD"),
           avg_winning_away_odds |-> OddsAvg(raw, {r \in sel : r.RESULT = "A"}, "AvgA"),
           avg_overall_home_odds |-> OddsAvg(raw, sel, "AvgH"),
           avg_overall_draw_odds |-> OddsAvg(raw, sel, "AvgD"),
           avg_overall_away_odds |-> OddsAvg(raw, sel, "AvgA")]>>))

\* SELECT AVG(goals), AVG(shots), COUNT(*)
GoalsShotsRows(where) ==
    Let(RawSel(where), LAMBDA sel :
    Let(BagSum(raw, sel), LAMBDA n :
        <<[avg_goals |-> SqlAvg(BagFieldSum(raw, sel, "goals"), n),
           avg_shots |-> SqlAvg(BagFieldSum(raw, sel, "shots"), n),
           total_games |-> n]>>))

\* one row per league: ... GROUP BY "League" ORDER BY avg_goals DESC
LeagueGroupRow(sel, lg) ==
    Let({r \in sel : r.League = lg}, LAMBDA grp :
    Let(BagSum(raw, grp), LAMBDA n :
    Let(BagFieldSum(raw, grp, "goals"), LAMBDA g :
    Let(BagFieldSum(raw, grp, "shots"), LAMBDA sh :
        [league |-> lg, total_games |-> n,
         avg_goals |-> SqlAvg(g, n), avg_shots |-> SqlAvg(sh, n),
         goals_shots_percentage |-> IF sh > 0 THEN SqlRound(g * 100, sh, 10) ELSE 0]))))

\* variant: the aggregates without GROUP BY "League", always one row
LeagueGoalsShotsRowsUngrouped(where) == <<LeagueGroupRow(RawSel(where), "L1")>>

LeagueGoalsShotsRows(where) ==
    Let(RawSel(where), LAMBDA sel :
    Let({LeagueGroupRow(sel, r.League) : r \in sel}, LAMBDA groups :
        CHOOSE q \in [1..Cardinality(groups) -> groups] :
            /\ \A i, j \in DOMAIN q : i # j => q[i] # q[j]
            /\ \A i, j \in DOMAIN q :
                 i < j => q[i].avg_goals.n * q[j].avg_goals.d
                            >= q[j].avg_goals.n * q[i].avg_goals.d))

\* raw_data rows with both scores present, grouped by season
SeasonGroupRow(se) ==
    Let({m \in Support(matches) : m.Season = se /\ ~m.FTHG.null /\ ~m.FTAG.null},
        LAMBDA grp :
    Let(BagSum(matches, grp), LAMBDA n :
    Let(BagSum(matches, {m \in grp : m.FTHG.n > m.FTAG.n}), LAMBDA hw :
    Let(BagSum(matches, {m \in grp : m.FTHG.n < m.FTAG.n}), LAMBDA aw :
    Let(BagSum(matches, {m \in grp : m.FTHG.n = m.FTAG.n}), LAMBDA dr :
        [league |-> "Various Leagues", season |-> se, total_matches |-> n,
         home_wins |-> hw, away_wins |-> aw, draws |-> dr,
         home_win_percentage |-> SqlRound(hw * 100, n, 100),
         away_win_percentage |-> SqlRound(aw * 100, n, 100),
         draw_percentage |-> SqlRound(dr * 100, n, 100)])))))

LeagueStatisticsRows ==
    Let(OrderedBy({m.Season : m \in {x \in Support(matches) : ~x.FTHG.null /\ ~x.FTAG.null}},
                  TRUE), LAMBDA ord :
        [i \in DOMAIN ord |-> SeasonGroupRow(ord[i])])

\* SELECT MAX(session_id) as latest_session_id FROM enhanced_predictions
SessionMaxRows ==
    <<[latest_session_id |->
         IF preds = {} THEN SqlNull ELSE SqlInt(SetMax({p.session_id : p \in preds}))]>>

\* ORDER BY ep.game_date DESC: the latest row first, one row after another
RECURSIVE ByGameDateDesc(_)
ByGameDateDesc(S) ==
    IF S = {} THEN <<>>
    ELSE Let(CHOOSE x \in S : \A y \in S : Ord(x.game_date) >= Ord(y.game_date),
             LAMBDA r : <<r>> \o ByGameDateDesc(S \ {r}))

\* SELECT ... FROM enhanced_predictions ep ... ORDER BY ep.game_date DESC
EnhancedRows(where) == ByGameDateDesc(Select(where, preds))

\* SELECT DISTINCT col ... ORDER BY col
DistinctRows(S, col, desc) ==
    Let(OrderedBy(S, desc), LAMBDA ord : [i \in DOMAIN ord |-> [c \in {col} |-> ord[i]]])

\* SELECT ... FROM team_statistics WHERE 1=1 ... ORDER BY league, season, league_rank
StatKey(t) == Ord(t.league) * 100 + Ord(t.season) * 10 + t.league_rank

LeagueTableRows(where) ==
    Let(Select(where, TeamStatistics), LAMBDA sel :
        CHOOSE q \in [1..Cardinality(sel) -> sel] :
            /\ \A i, j \in DOMAIN q : i # j => q[i] # q[j]
            /\ \A i, j \in DOMAIN q : i < j => StatKey(q[i]) <= StatKey(q[j]))

\* predicted_results_ha and teams_general_info do not change while the
\* dashboard runs
PredictedResultsHa ==
    {[id |-> 1, Model |-> "M1", Confidence_Score |-> 20, Predicted_RESULT |-> "H"],
     [id |-> 2, Model |-> "M1", Confidence_Score |-> 10, Predicted_RESULT |-> "D"],
     [id |-> 3, Model |-> "M2", Confidence_Score |-> 25, Predicted_RESULT |-> "A"]}

TeamsGeneralInfo ==
    {[team |-> "T1", longitude |-> SqlInt(21), latitude |-> SqlInt(38)],
     [team |-> "T2", longitude |-> SqlInt(0), latitude |-> SqlInt(0)],
     [team |-> "T3", longitude |-> SqlNull, latitude |-> SqlInt(40)]}

RECURSIVE FieldSum(_, _)
FieldSum(S, fld) ==
    IF S = {} THEN 0
    ELSE Let(CHOOSE x \in S : TRUE, LAMBDA r : r[fld] + FieldSum(S \ {r}, fld))

\* GROUP BY "Model": one row for each model of predicted_results_ha
ModelGroupRow(m) ==
    Let({r \in PredictedResultsHa : r.Model = m}, LAMBDA grp :
    Let(Cardinality(grp), LAMBDA n :
    Let(FieldSum(grp, "Confidence_Score"), LAMBDA total :
        [model |-> m, total_predictions |-> n,
         avg_confidence |-> SqlAvg(total, n),
         max_confidence |-> SetMax({r.Confidence_Score : r \in grp}),
         min_confidence |-> 0 - SetMax({0 - r.Confidence_Score : r \in grp}),
         home_predictions |-> Cardinality({r \in grp : r.Predicted_RESULT = "H"}),
         away_predictions |-> Cardinality({r \in grp : r.Predicted_RESULT = "A"}),
         draw_predictions |-> Cardinality({r \in grp : r.Predicted_RESULT = "D"}),
         accuracy_percentage |-> SqlAvg(70 * n + total, n)])))

\* ... ORDER BY avg_confidence DESC: the highest average first
RECURSIVE ByAvgConfidenceDesc(_)
ByAvgConfidenceDesc(S) ==
    IF S = {} THEN <<>>
    ELSE Let(CHOOSE x \in S : \A y \in S :
                 x.avg_confidence.n * y.avg_confidence.d
                     >= y.avg_confidence.n * x.avg_confidence.d,
             LAMBDA r : <<r>> \o ByAvgConfidenceDesc(S \ {r}))

ModelPerformanceRows ==
    ByAvgConfidenceDesc({ModelGroupRow(m) : m \in {r.Model : r \in PredictedResultsHa}})

\* SELECT DISTINCT team ... WHERE longitude IS NOT NULL AND latitude IS NOT
\* NULL AND longitude != 0 AND latitude != 0 ORDER BY team
RECURSIVE ByTeam(_)
ByTeam(S) ==
    IF S = {} THEN <<>>
    ELSE Let(CHOOSE x \in S : \A y \in S : Ord(x.team) <= Ord(y.team),
             LAMBDA r : <<r>> \o ByTeam(S \ {r}))

TeamsCoordsRows ==
    ByTeam({t \in TeamsGeneralInfo :
               /\ ~t.longitude.null /\ ~t.latitude.null
               /\ t.longitude.n # 0 /\ t.latitude.n # 0})

\* ... FROM enhanced_predictions ep ... ORDER BY ep.game_date DESC LIMIT n
RecentMatchesRows(limit) ==
    Let(ByGameDateDesc(preds), LAMBDA ord :
        SubSeq(ord, 1, IF limit < Len(ord) THEN limit ELSE Len(ord)))

\* the rows fetchall() returns for a query whose placeholders are bound
Rows(tpl, w) ==
    CASE tpl = "key_metrics" -> KeyMetricsRows(w[1])
      [] tpl = "teams_count" -> TeamsCountRows(w[1], w[2])
      [] tpl = "analytics" -> AnalyticsRows(w[1])
      [] tpl = "goals_shots" -> GoalsShotsRows(w[1])
      [] tpl = "league_goals_shots" -> LeagueGoalsShotsRows(w[1])
      [] tpl = "league_statistics" -> LeagueStatisticsRows
      [] tpl = "model_performance" -> ModelPerformanceRows
      [] tpl = "teams_coords" -> TeamsCoordsRows
      [] tpl = "recent_matches" -> RecentMatchesRows(w[1][2].v)
      [] tpl = "session_max" -> SessionMaxRows
      [] tpl = "enhanced" -> EnhancedRows(w[1])
      [] tpl = "league_table" -> LeagueTableRows(w[1])
      [] tpl = "raw_leagues" ->
           DistinctRows({r.League : r \in RawSel(RawBase)} \ {NULL}, "League", FALSE)
      [] tpl = "raw_seasons" ->
           DistinctRows({r.Season : r \in RawSel(RawBase)} \ {NULL}, "Season", TRUE)
      [] tpl = "raw_teams" ->
           DistinctRows(({r.HT : r \in RawSel(RawBase)} \cup {r.AT : r \in RawSel(RawBase)})
                           \ {NULL}, "team", FALSE)
      [] tpl = "avail_teams" ->
           DistinctRows({p.home_team : p \in preds} \cup {p.away_team : p \in preds},
                        "team", FALSE)
      [] tpl = "avail_leagues" -> DistinctRows({p.league : p \in preds}, "league", FALSE)
      [] tpl = "avail_models" -> DistinctRows({p.model : p \in preds}, "model", FALSE)
      [] tpl = "lt_leagues" -> DistinctRows({t.league : t \in TeamStatistics}, "league", FALSE)
      [] tpl = "lt_seasons" -> DistinctRows({t.season : t \in TeamStatistics}, "season", TRUE)
      [] tpl = "lt_teams" -> DistinctRows({t.team : t \in TeamStatistics}, "team", FALSE)
      [] tpl = "latest_season" ->
           SubSeq(DistinctRows({t.season : t \in TeamStatistics}, "season", TRUE), 1, 1)
      [] tpl = "team_stats" ->
           LeagueTableRows(w[1])

----------------------------------------------------------------------------
(* DatabaseManager.execute_query *)

\* pd.DataFrame(): no columns, no rows
EmptyDF == [cols |-> {}, rows |-> <<>>]

\* df = pd.DataFrame(results, columns=columns) if results else pd.DataFrame()
DataFrame(results) ==
    IF results # <<>> THEN [cols |-> DOMAIN results[1], rows |-> results] ELSE EmptyDF

\* df.empty
Empty(df) == df.rows = <<>>

\* a statement that writes and yields no result set:
\* DELETE FROM enhanced_predictions
IsWrite(q) == q.tpl = "delete_predictions"

\* cursor.execute raises: the parameters do not fit the placeholders, the
\* text names a table or column the store does not have, or an IN list is
\* empty; cursor.fetchall raises after a statement without a result set
ExecuteRaises(q, params) ==
    \/ IsWrite(q)
    \/ params # <<>> /\ Len(params) # NumPlaceholders(q)
    \/ params = <<>> /\ NumPlaceholders(q) > 0
    \/ ~KnownTemplate(q.tpl)
    \/ \E i \in DOMAIN q.parts : ~WellFormed(q.parts[i], Columns(q.tpl), 1)

\* what get_connection / the except clause hand to st.error
ConnectNotice == "Failed to connect to database"
QueryNotice == "Query failed"

\* variant: execute_query without its except clause, the failure propagating
ExecuteQueryPropagates(q, params, lost) ==
    IF ~dbUp
    THEN [df |-> EmptyDF, notices |-> <<ConnectNotice>>, raised |-> FALSE]
    ELSE IF lost \/ ExecuteRaises(q, params)
         THEN [df |-> EmptyDF, notices |-> <<>>, raised |-> TRUE]
         ELSE [df |-> DataFrame(Rows(q.tpl, BindParts(q.parts, params, 1))),
               notices |-> <<>>, raised |-> FALSE]

\* execute_query(query, params): lost is a failure of the server while the
\* statement runs; the result and the st.error calls made
ExecuteQuery(q, params, lost) ==
    IF ~dbUp
    THEN [df |-> EmptyDF, notices |-> <<ConnectNotice>>, raised |-> FALSE]
    ELSE IF lost \/ ExecuteRaises(q, params)
         THEN [df |-> EmptyDF, notices |-> <<QueryNotice>>, raised |-> FALSE]
         ELSE [df |-> DataFrame(Rows(q.tpl, BindParts(q.parts, params, 1))),
               notices |-> <<>>, raised |-> FALSE]

\* conn = self.get_connection(): a connection is opened when the store is
\* reachable, None is returned (and nothing opened) when it is not
ConnOpened == IF dbUp THEN 1 ELSE 0

\* finally: conn.close() runs on the return and on the except path alike; it
\* is not reached when conn is None
ExecuteQueryClosed == IF dbUp THEN 1 ELSE 0

\* variant: the transaction of the statement committed
ExecuteQueryCommitsAlways == TRUE

\* execute_query never calls conn.commit() and get_connection leaves
\* autocommit off: the statement runs in a transaction of its own connection
ExecuteQueryCommits == FALSE

\* enhanced_predictions after execute_query: conn.close() in the finally
\* clause ends a transaction that was not committed by rolling it back
PredsAfterExecute(q, params, lost) ==
    IF dbUp /\ ~lost /\ IsWrite(q) /\ ExecuteQueryCommits THEN {} ELSE preds

\* the open connections after the queries were handed to execute_query
ConnsAfter(queries) == conns + Len(queries) * (ConnOpened - ExecuteQueryClosed)

----------------------------------------------------------------------------
(* The raw-data aggregation functions of db.py *)

\* variant: truncation in place of rounding
PyRoundDown(n, d, scale) == (n * scale) \div d

\* Python round(n / d * 100, 1) and round(float(n / d), 2): n/d in units of
\* 1/scale, the nearest one, a tie going to the even neighbour
PyRound(n, d, scale) ==
    LET q == (n * scale) \div d
        rem == (n * scale) % d
    IN  IF 2 * rem > d \/ (2 * rem = d /\ q % 2 = 1) THEN q + 1 ELSE q

\* round((count / total_games * 100) if total_games > 0 else 0, 1), in tenths
Percentage(count, total_games) ==
    IF total_games > 0 THEN PyRound(count * 100, total_games, 10) ELSE 0

\* variant: the aggregate passed on as the store gave it, a NULL becoming
\* not-a-number (written -1, a value no average takes)
AverageUnguarded(x) == IF ~x.null THEN PyRound(x.n, x.d, 100) ELSE 0 - 1

\* round(float(x) if x is not None else 0, 2), in hundredths
Average(x) == IF ~x.null THEN PyRound(x.n, x.d, 100) ELSE 0

\* round(float(x) if pd.notnull(x) else 0, 2), in hundredths
AverageNotNull(x) == IF ~x.null THEN PyRound(x.n, x.d, 100) ELSE 0

\* variant: the team-count query given the parameters once
TeamsParamsOnce(params) == params

\* teams_params = tuple(params + params) if params else None
TeamsParams(params) == params \o params

Issued(q, params) == [q |-> q, params |-> params]

ZeroMetrics == [total_games |-> 0, total_leagues |-> 0, total_seasons |-> 0, total_teams |-> 0]

GetRawDataKeyMetrics(f, lost1, lost2) ==
    Let(KeyMetricsBuild(f), LAMBDA b :
    Let(WhereClause(b.conds), LAMBDA where_clause :
    Let(Query("key_metrics", <<RawBase \o where_clause>>), LAMBDA metrics_query :
    Let(Query("teams_count", <<RawBase \o where_clause, RawBase \o where_clause>>),
        LAMBDA teams_query :
    Let(ExecuteQuery(metrics_query, b.params, lost1), LAMBDA result :
    Let(TeamsParams(b.params), LAMBDA teams_params :
    Let(ExecuteQuery(teams_query, teams_params, lost2), LAMBDA teams_result :
        [where |-> where_clause, params |-> b.params,
         queries |-> <<Issued(metrics_query, b.params), Issued(teams_query, teams_params)>>,
         notices |-> result.notices \o teams_result.notices,
         raised |-> FALSE,
         ret |-> IF ~Empty(result.df)
                 THEN [total_games |-> result.df.rows[1].total_games,
                       total_leagues |-> result.df.rows[1].total_leagues,
                       total_seasons |-> result.df.rows[1].total_seasons,
                       total_teams |-> IF ~Empty(teams_result.df)
                                       THEN teams_result.df.rows[1].total_teams ELSE 0]
                 ELSE ZeroMetrics])))))))

ZeroAnalytics ==
    [home_wins |-> 0, away_wins |-> 0, draws |-> 0, total_games |-> 0,
     home_percentage |-> 0, away_percentage |-> 0, draw_percentage |-> 0,
     avg_goals |-> 0, avg_shots |-> 0,
     avg_winning_home_odds |-> 0, avg_winning_draw_odds |-> 0, avg_winning_away_odds |-> 0,
     avg_overall_home_odds |-> 0, avg_overall_draw_odds |-> 0, avg_overall_away_odds |-> 0]

\* row = result.iloc[0] and the dictionary returned for it
AnalyticsDict(row) ==
    [home_wins |-> row.home_wins,
     away_wins |-> row.away_wins,
     draws |-> row.draws,
     total_games |-> row.total_games,
     home_percentage |-> Percentage(row.home_wins, row.total_games),
     away_percentage |-> Percentage(row.away_wins, row.total_games),
     draw_percentage |-> Percentage(row.draws, row.total_games),
     avg_goals |-> Average(row.avg_goals),
     avg_shots |-> Average(row.avg_shots),
     avg_winning_home_odds |-> Average(row.avg_winning_home_odds),
     avg_winning_draw_odds |-> Average(row.avg_winning_draw_odds),
     avg_winning_away_odds |-> Average(row.avg_winning_away_odds),
     avg_overall_home_odds |-> AverageNotNull(row.avg_overall_home_odds),
     avg_overall_draw_odds |-> AverageNotNull(row.avg_overall_draw_odds),
     avg_overall_away_odds |-> AverageNotNull(row.avg_overall_away_odds)]

GetRawDataAnalytics(f, lost) ==
    Let(AnalyticsBuild(f), LAMBDA b :
    Let(WhereClause(b.conds), LAMBDA where_clause :
    Let(Query("analytics", <<RawBase \o where_clause>>), LAMBDA analytics_query :
    Let(ExecuteQuery(analytics_query, b.params, lost), LAMBDA result :
        [where |-> where_clause, params |-> b.params,
         queries |-> <<Issued(analytics_query, b.params)>>,
         notices |-> result.notices,
         raised |-> FALSE,
         ret |-> IF ~Empty(result.df) THEN AnalyticsDict(result.df.rows[1])
                 ELSE ZeroAnalytics]))))

ZeroGoalsShots == [avg_goals |-> 0, avg_shots |-> 0, total_games |-> 0]

GetGoalsShotsFilteredData(f, lost) ==
    Let(GoalsShotsBuild(f), LAMBDA b :
    Let(WhereClause(b.conds), LAMBDA where_clause :
    Let(Query("goals_shots", <<RawBase \o where_clause>>), LAMBDA query :
    Let(ExecuteQuery(query, b.params, lost), LAMBDA result :
        [where |-> where_clause, params |-> b.params,
         queries |-> <<Issued(query, b.params)>>,
         notices |-> result.notices,
         raised |-> FALSE,
         ret |-> IF ~Empty(result.df)
                 THEN [avg_goals |-> AverageNotNull(result.df.rows[1].avg_goals),
                       avg_shots |-> AverageNotNull(result.df.rows[1].avg_shots),
                       total_games |-> result.df.rows[1].total_games]
                 ELSE ZeroGoalsShots]))))

GetLeagueGoalsShotsAnalytics(f, lost) ==
    Let(LeagueGoalsShotsBuild(f), LAMBDA b :
    Let(WhereClause(b.conds), LAMBDA where_clause :
    Let(Query("league_goals_shots", <<LeagueBase \o where_clause>>), LAMBDA league_query :
    Let(ExecuteQuery(league_query, b.params, lost), LAMBDA result :
        [where |-> where_clause, params |-> b.params,
         queries |-> <<Issued(league_query, b.params)>>,
         notices |-> result.notices,
         raised |-> FALSE,
         ret |-> result.df]))))

\* get_league_table: the filters are appended to "... WHERE 1=1"
GetLeagueTable(f, lost) ==
    Let(LeagueTableBuild(f), LAMBDA b :
    Let(WhereClause(b.conds), LAMBDA where_clause :
    Let(Query("league_table", <<<<KW("1=1")>> \o where_clause>>), LAMBDA query :
    Let(ExecuteQuery(query, b.params, lost), LAMBDA result :
        [where |-> where_clause, params |-> b.params,
         queries |-> <<Issued(query, b.params)>>,
         notices |-> result.notices,
         raised |-> FALSE,
         ret |-> result.df]))))

----------------------------------------------------------------------------
(* State machine *)

NoCall == [fn |-> "none", args |-> NoFilters, where |-> <<>>, params |-> <<>>,
           queries |-> <<>>, faults |-> <<>>, atCall |-> 0, ret |-> EmptyDF,
           raised |-> FALSE]
NoEp == [started |-> FALSE]
NoChart == [drawn |-> FALSE, home_pct |-> 0, away_pct |-> 0, draw_pct |-> 0]
EmptyBag == <<>>
\* no launcher script is being followed
NoLaunch == [script |-> "none"]
\* nothing memoized yet
NoCache == {}
\* no browser session is being followed
NoApp == [pc |-> "none"]

\* a call of a db.py function returned (or raised): what the caller observes
\* the largest session_id of the table, 0 when it holds no row
MaxSessionId(P) == IF P = {} THEN 0 ELSE SetMax({p.session_id : p \in P})

\* faults: for each query of the call, whether the server failed while it ran;
\* atCall: the largest session_id in the store when the function was entered
ReturnAt(fn, args, faults, atCall, res) ==
    /\ call' = [fn |-> fn, args |-> args, where |-> res.where, params |-> res.params,
                queries |-> res.queries, faults |-> faults, atCall |-> atCall,
                ret |-> res.ret, raised |-> res.raised]
    /\ notices' = res.notices
    /\ conns' = ConnsAfter(res.queries)

Return(fn, args, faults, res) == ReturnAt(fn, args, faults, MaxSessionId(preds), res)

RawDataKeyMetricsCall(FS, Lost) ==
    /\ pc = "idle" /\ call.fn = "none"
    /\ \E f \in FS, lost1, lost2 \in Lost :
         Return("get_raw_data_key_metrics", f, <<lost1, lost2>>,
                GetRawDataKeyMetrics(f, lost1, lost2))
    /\ UNCHANGED <<dbUp, raw, matches, preds, pc, ep, chart, launch, cache, now, app>>

RawDataAnalyticsCall(FS, Lost) ==
    /\ pc = "idle" /\ call.fn = "none"
    /\ \E f \in FS, lost \in Lost :
         Return("get_raw_data_analytics", f, <<lost>>,
                GetRawDataAnalytics(f, lost))
    /\ UNCHANGED <<dbUp, raw, matches, preds, pc, ep, chart, launch, cache, now, app>>

GoalsShotsFilteredDataCall(FS, Lost) ==
    /\ pc = "idle" /\ call.fn = "none"
    /\ \E f \in FS, lost \in Lost :
         Return("get_goals_shots_filtered_data", f, <<lost>>,
                GetGoalsShotsFilteredData(f, lost))
    /\ UNCHANGED <<dbUp, raw, matches, preds, pc, ep, chart, launch, cache, now, app>>

LeagueGoalsShotsAnalyticsCall(FS, Lost) ==
    /\ pc = "idle" /\ call.fn = "none"
    /\ \E f \in FS, lost \in Lost :
         Return("get_league_goals_shots_analytics", f, <<lost>>,
                GetLeagueGoalsShotsAnalytics(f, lost))
    /\ UNCHANGED <<dbUp, raw, matches, preds, pc, ep, chart, launch, cache, now, app>>

\* get_league_table takes lists (or None) and no dates
TableFilterSets(FS) ==
    {f \in FS : /\ f.league.t # "str" /\ f.season.t # "str" /\ f.team.t # "str"
                /\ f.date_from = PyNone /\ f.date_to = PyNone}

LeagueTableCall(FS, Lost) ==
    /\ pc = "idle" /\ call.fn = "none"
    /\ \E f \in TableFilterSets(FS), lost \in Lost :
         Return("get_league_table", f, <<lost>>,
                GetLeagueTable(f, lost))
    /\ UNCHANGED <<dbUp, raw, matches, preds, pc, ep, chart, launch, cache, now, app>>

\* the script run that made the call ends: Streamlit drops its locals
ScriptRunEnds ==
    /\ pc = "idle" /\ call.fn # "none"
    /\ call' = NoCall
    /\ notices' = <<>>
    /\ chart' = NoChart
    /\ UNCHANGED <<dbUp, raw, matches, preds, pc, ep, conns, launch, cache, now, app>>

----------------------------------------------------------------------------
(* Specification of the filter step: every filter set, against one store *)

FilterStore ==
    LET a == RawRow("L1", "S1", "T1", "T2", "D1", "H", 3, 10)
        b == RawRow("L2", "S1", "T2", "T3", "D2", "D", 2, 8)
        c == RawRow("L1", "S2", "T3", "T1", "D3", "A", 1, 5)
        d == NoOdds(RawRow(NULL, "S1", "T2", NULL, NULL, "H", 4, 0))
    IN  [r \in {a, b, c, d} |-> IF r = a THEN 2 ELSE 1]

InitFilter ==
    /\ dbUp = TRUE
    /\ raw = FilterStore
    /\ matches = EmptyBag
    /\ preds = {}
    /\ pc = "idle"
    /\ ep = NoEp
    /\ call = NoCall
    /\ notices = <<>>
    /\ chart = NoChart
    /\ conns = 0
    /\ launch = NoLaunch
    /\ cache = NoCache
    /\ now = 0
    /\ app = NoApp

NextFilter ==
    \/ RawDataKeyMetricsCall(FilterSets, {FALSE})
    \/ RawDataAnalyticsCall(FilterSets, {FALSE})
    \/ GoalsShotsFilteredDataCall(FilterSets, {FALSE})
    \/ LeagueGoalsShotsAnalyticsCall(FilterSets, {FALSE})
    \/ LeagueTableCall(FilterSets, {FALSE})
    \/ ScriptRunEnds

SpecFilter == InitFilter /\ [][NextFilter]_vars

----------------------------------------------------------------------------
(* The result chart of app.py and the specification of the percentages *)

\* round((analytics_data[...] / total_games * 100), 1) if total_games > 0 else 0
ChartPercentage(count, total_games) ==
    IF total_games > 0 THEN PyRound(count * 100, total_games, 10) ELSE 0

\* create_home_away_draw_chart(data['raw_data_analytics'])
CreateHomeAwayDrawChart ==
    /\ pc = "idle" /\ call.fn = "get_raw_data_analytics" /\ ~chart.drawn
    /\ chart' = [drawn |-> TRUE,
                 home_pct |-> ChartPercentage(call.ret.home_wins, call.ret.total_games),
                 away_pct |-> ChartPercentage(call.ret.away_wins, call.ret.total_games),
                 draw_pct |-> ChartPercentage(call.ret.draws, call.ret.total_games)]
    /\ UNCHANGED <<dbUp, raw, matches, preds, pc, ep, call, notices, conns, launch, cache, now, app>>

\* one match per result; a store holds each of them 0..MaxCount times
RecH == RawRow("L1", "S1", "T1", "T2", "D1", "H", 3, 10)
RecA == RawRow("L1", "S1", "T2", "T3", "D2", "A", 1, 7)
RecD == RawRow("L2", "S2", "T3", "T1", "D3", "D", 2, 9)

PctStores ==
    {[r \in {RecH, RecA, RecD} |-> CASE r = RecH -> h [] r = RecA -> a [] OTHER -> d] :
        h \in 0..MaxCount, a \in 0..MaxCount, d \in 0..MaxCount}

InitPct ==
    /\ dbUp = TRUE
    /\ raw \in PctStores
    /\ matches = EmptyBag
    /\ preds = {}
    /\ pc = "idle"
    /\ ep = NoEp
    /\ call = NoCall
    /\ notices = <<>>
    /\ chart = NoChart
    /\ conns = 0
    /\ launch = NoLaunch
    /\ cache = NoCache
    /\ now = 0
    /\ app = NoApp

NextPct ==
    \/ RawDataAnalyticsCall({NoFilters}, {FALSE})
    \/ CreateHomeAwayDrawChart
    \/ ScriptRunEnds

SpecPct == InitPct /\ [][NextPct]_vars

----------------------------------------------------------------------------
(* The other data-access functions of db.py *)

\* what a function that builds no where_clause returns to the model
Res(queries, ns, raised, ret) ==
    [where |-> <<>>, params |-> <<>>, queries |-> queries, notices |-> ns,
     raised |-> raised, ret |-> ret]

\* df[c]: KeyError when the frame has no such column, as pd.DataFrame() has none
ColumnOf(df, c) ==
    IF c \in df.cols
    THEN [ok |-> TRUE, vals |-> [i \in DOMAIN df.rows |-> df.rows[i][c]]]
    ELSE [ok |-> FALSE, vals |-> <<>>]

\* execute_query called directly with a query and a parameter tuple
ExecuteQueryDirect(q, params, lost) ==
    Let(ExecuteQuery(q, params, lost), LAMBDA r :
        Res(<<Issued(q, params)>>, r.notices, r.raised, r.df))

\* get_available_filters: three queries, each indexed by its column, no try
GetAvailableFilters(lost1, lost2, lost3) ==
    Let(Query("avail_teams", <<>>), LAMBDA q1 :
    Let(Query("avail_leagues", <<>>), LAMBDA q2 :
    Let(Query("avail_models", <<>>), LAMBDA q3 :
    Let(ExecuteQuery(q1, <<>>, lost1), LAMBDA r1 :
    Let(ColumnOf(r1.df, "team"), LAMBDA teams :
    Let(ExecuteQuery(q2, <<>>, lost2), LAMBDA r2 :
    Let(ColumnOf(r2.df, "league"), LAMBDA leagues :
    Let(ExecuteQuery(q3, <<>>, lost3), LAMBDA r3 :
    Let(ColumnOf(r3.df, "model"), LAMBDA models :
        IF ~teams.ok
        THEN Res(<<Issued(q1, <<>>)>>, r1.notices, TRUE, "KeyError")
        ELSE IF ~leagues.ok
        THEN Res(<<Issued(q1, <<>>), Issued(q2, <<>>)>>, r1.notices \o r2.notices,
                 TRUE, "KeyError")
        ELSE IF ~models.ok
        THEN Res(<<Issued(q1, <<>>), Issued(q2, <<>>), Issued(q3, <<>>)>>,
                 r1.notices \o r2.notices \o r3.notices, TRUE, "KeyError")
        ELSE Res(<<Issued(q1, <<>>), Issued(q2, <<>>), Issued(q3, <<>>)>>,
                 r1.notices \o r2.notices \o r3.notices, FALSE,
                 [teams |-> teams.vals, leagues |-> leagues.vals,
                  models |-> models.vals]))))))))))

\* get_league_statistics
GetLeagueStatistics(lost) ==
    Let(Query("league_statistics", <<>>), LAMBDA q :
    Let(ExecuteQuery(q, <<>>, lost), LAMBDA r :
        Res(<<Issued(q, <<>>)>>, r.notices, FALSE, r.df)))

\* get_model_performance
GetModelPerformance(lost) ==
    Let(Query("model_performance", <<>>), LAMBDA query :
    Let(ExecuteQuery(query, <<>>, lost), LAMBDA r :
        Res(<<Issued(query, <<>>)>>, r.notices, FALSE, r.df)))

\* get_teams_with_coordinates
GetTeamsWithCoordinates(lost) ==
    Let(Query("teams_coords", <<>>), LAMBDA query :
    Let(ExecuteQuery(query, <<>>, lost), LAMBDA r :
        Res(<<Issued(query, <<>>)>>, r.notices, FALSE, r.df)))

\* get_recent_matches(limit): db.execute_query(query, (limit,))
GetRecentMatches(limit, lost) ==
    Let(Query("recent_matches", <<<<KW("LIMIT"), PH>>>>), LAMBDA query :
    Let(ExecuteQuery(query, <<limit>>, lost), LAMBDA r :
        Res(<<Issued(query, <<limit>>)>>, r.notices, FALSE, r.df)))

\* result[c].tolist() if not result.empty else [], inside try ... except: []
ListIfNotEmpty(tpl, c, lost) ==
    Let(Query(tpl, <<>>), LAMBDA q :
    Let(ExecuteQuery(q, <<>>, lost), LAMBDA result :
    Let(ColumnOf(result.df, c), LAMBDA col :
        Res(<<Issued(q, <<>>)>>, result.notices, FALSE,
            IF ~Empty(result.df) THEN (IF col.ok THEN col.vals ELSE <<>>) ELSE <<>>))))

\* result[c].tolist() inside try ... except: [] (the KeyError is caught)
ListOrCaught(tpl, c, lost) ==
    Let(Query(tpl, <<>>), LAMBDA q :
    Let(ExecuteQuery(q, <<>>, lost), LAMBDA result :
    Let(ColumnOf(result.df, c), LAMBDA col :
        Res(<<Issued(q, <<>>)>>, result.notices, FALSE,
            IF col.ok THEN col.vals ELSE <<>>))))

GetRawDataLeagues(lost) == ListIfNotEmpty("raw_leagues", "League", lost)
GetRawDataSeasons(lost) == ListIfNotEmpty("raw_seasons", "Season", lost)
GetTeams(lost) == ListIfNotEmpty("raw_teams", "team", lost)
GetRawDataTeams(lost) == ListIfNotEmpty("raw_teams", "team", lost)
GetLeagueTableLeagues(lost) == ListOrCaught("lt_leagues", "league", lost)
GetLeagueTableSeasons(lost) == ListOrCaught("lt_seasons", "season", lost)
GetLeagueTableTeams(lost) == ListOrCaught("lt_teams", "team", lost)

\* the per-team entry when no statistics row was found
NotAvailable == [na |-> TRUE, league_rank |-> 0]

\* season = "2024-25"  # Fallback
FallbackSeason == "2024-25"

\* WHERE team IN (%s, %s) AND season = %s
TeamStatsWhere == InFragment("team", 2) \o <<KW("AND")>> \o CmpFragment("season", "=")

\* stats_dict[team], the last row of the team overwriting earlier ones, or
\* the 'N/A' entry when the result holds no row of the team
StatsEntry(rows, t) ==
    IF \E i \in DOMAIN rows : rows[i].team = t
    THEN Let(CHOOSE i \in DOMAIN rows :
                 /\ rows[i].team = t
                 /\ \A j \in DOMAIN rows : rows[j].team = t => j <= i, LAMBDA i :
             [na |-> FALSE, league_rank |-> rows[i].league_rank])
    ELSE NotAvailable

\* get_team_statistics(home_team, away_team, season)
GetTeamStatistics(a, lost1, lost2) ==
    Let(Query("latest_season", <<>>), LAMBDA season_query :
    Let(ExecuteQuery(season_query, <<>>, lost1), LAMBDA season_result :
    Let(IF a.season.t = "none"
        THEN IF ~Empty(season_result.df)
             THEN season_result.df.rows[1].season ELSE FallbackSeason
        ELSE a.season.s, LAMBDA season :
    Let(Query("team_stats", <<TeamStatsWhere>>), LAMBDA stats_query :
    Let(<<a.home_team, a.away_team, season>>, LAMBDA stats_params :
    Let(ExecuteQuery(stats_query, stats_params, lost2), LAMBDA result :
        Res((IF a.season.t = "none" THEN <<Issued(season_query, <<>>)>> ELSE <<>>)
               \o <<Issued(stats_query, stats_params)>>,
            (IF a.season.t = "none" THEN season_result.notices ELSE <<>>) \o result.notices,
            FALSE,
            [t \in {a.home_team, a.away_team} |-> StatsEntry(result.df.rows, t)])))))))

----------------------------------------------------------------------------
(* get_enhanced_predictions: the session lookup, then the main query *)

EPArgs ==
    [team_filter : {PyNone, PyStr("T1")}, league_filter : {PyNone, PyStr("L1")},
     date_from : {PyNone, PyStr("D2")}, date_to : {PyNone, PyStr("D2")},
     model_filter : {PyNone, PyStr("M1")}, last_session_only : BOOLEAN]

\* get_last_session_predictions: get_enhanced_predictions(last_session_only=True)
LastSessionArgs ==
    [team_filter |-> PyNone, league_filter |-> PyNone, date_from |-> PyNone,
     date_to |-> PyNone, model_filter |-> PyNone, last_session_only |-> TRUE]

\* variant: the lookup leaves the date filters in place
SessionLookupKeepsDates(a, lost) ==
    Let(Query("session_max", <<>>), LAMBDA session_query :
    Let(ExecuteQuery(session_query, <<>>, lost), LAMBDA session_result :
    Let(/\ ~Empty(session_result.df)
        /\ ~session_result.df.rows[1].latest_session_id.null, LAMBDA found :
        IF a.last_session_only
        THEN [bound |-> found,
              latest_session_id |-> IF found
                                    THEN session_result.df.rows[1].latest_session_id.n ELSE 0,
              date_from |-> a.date_from,
              date_to |-> a.date_to,
              queries |-> <<Issued(session_query, <<>>)>>,
              faults |-> <<lost>>,
              notices |-> session_result.notices]
        ELSE [bound |-> FALSE, latest_session_id |-> 0,
              date_from |-> a.date_from, date_to |-> a.date_to,
              queries |-> <<>>, faults |-> <<>>, notices |-> <<>>])))

\* lines 172-188: the locals after the optional MAX(session_id) lookup.
\* bound: latest_session_id was assigned ('latest_session_id' in locals())
SessionLookup(a, lost) ==
    Let(Query("session_max", <<>>), LAMBDA session_query :
    Let(ExecuteQuery(session_query, <<>>, lost), LAMBDA session_result :
    Let(/\ ~Empty(session_result.df)
        /\ ~session_result.df.rows[1].latest_session_id.null, LAMBDA found :
        IF a.last_session_only
        THEN [bound |-> found,
              latest_session_id |-> IF found
                                    THEN session_result.df.rows[1].latest_session_id.n ELSE 0,
              date_from |-> IF found THEN PyNone ELSE a.date_from,
              date_to |-> IF found THEN PyNone ELSE a.date_to,
              queries |-> <<Issued(session_query, <<>>)>>,
              faults |-> <<lost>>,
              notices |-> session_result.notices]
        ELSE [bound |-> FALSE, latest_session_id |-> 0,
              date_from |-> a.date_from, date_to |-> a.date_to,
              queries |-> <<>>, faults |-> <<>>, notices |-> <<>>])))

\* '(ep.home_team = %s OR ep.away_team = %s)'
PredTeamFragment ==
    <<KW("(")>> \o CmpFragment("home_team", "=") \o <<KW("OR")>>
        \o CmpFragment("away_team", "=") \o <<KW(")")>>

\* lines 231-258: where_conditions and params of the main query
EnhancedBuild(a, loc) ==
    Let(IF a.last_session_only /\ loc.bound
        THEN Add(NoBuild, CmpFragment("session_id", "="), <<loc.latest_session_id>>)
        ELSE NoBuild, LAMBDA b1 :
    Let(IF Truthy(a.team_filter)
        THEN Add(b1, PredTeamFragment, <<a.team_filter.s, a.team_filter.s>>)
        ELSE b1, LAMBDA b2 :
    Let(IF Truthy(a.league_filter)
        THEN Add(b2, CmpFragment("league", "="), <<a.league_filter.s>>)
        ELSE b2, LAMBDA b3 :
    Let(IF Truthy(loc.date_from)
        THEN Add(b3, CmpFragment("game_date", ">="), <<loc.date_from.s>>)
        ELSE b3, LAMBDA b4 :
    Let(IF Truthy(loc.date_to)
        THEN Add(b4, CmpFragment("game_date", "<="), <<loc.date_to.s>>)
        ELSE b4, LAMBDA b5 :
    Let(IF Truthy(a.model_filter)
        THEN Add(b5, CmpFragment("model", "="), <<a.model_filter.s>>)
        ELSE b5, LAMBDA b6 : b6))))))

\* lines 260-278: base_query += " WHERE " + " AND ".join(...), then execute
EnhancedQuery(a, loc, lost) ==
    Let(EnhancedBuild(a, loc), LAMBDA b :
    Let(JoinAnd(b.conds), LAMBDA where :
    Let(Query("enhanced", <<where>>), LAMBDA base_query :
    Let(ExecuteQuery(base_query, b.params, lost), LAMBDA result :
        [where |-> where, params |-> b.params,
         queries |-> loc.queries \o <<Issued(base_query, b.params)>>,
         notices |-> loc.notices \o result.notices,
         raised |-> FALSE,
         ret |-> result.df]))))

----------------------------------------------------------------------------
(* The dashboard's calls and its environment *)

\* queries handed to execute_query directly: well formed ones, one whose
\* parameters do not fit, one naming a column and one a table that do not
\* exist, and one that deletes the predictions
SampleQueries ==
    {[q |-> Query("raw_leagues", <<>>), params |-> <<>>],
     [q |-> Query("league_table", <<<<KW("1=1"), KW("AND")>> \o CmpFragment("league", "=")>>),
      params |-> <<"L1">>],
     [q |-> Query("league_table", <<<<KW("1=1"), KW("AND")>> \o CmpFragment("league", "=")>>),
      params |-> <<"L1", "L2">>],
     [q |-> Query("league_table",
                  <<<<KW("1=1"), KW("AND")>> \o CmpFragment("no_such_column", "=")>>),
      params |-> <<"L1">>],
     [q |-> Query("no_such_table", <<>>), params |-> <<>>],
     [q |-> Query("delete_predictions", <<>>), params |-> <<>>]}

ExecuteQueryCall ==
    /\ pc = "idle" /\ call.fn = "none"
    /\ \E s \in SampleQueries, lost \in BOOLEAN :
         /\ Return("execute_query", s, <<lost>>, ExecuteQueryDirect(s.q, s.params, lost))
         /\ preds' = PredsAfterExecute(s.q, s.params, lost)
    /\ UNCHANGED <<dbUp, raw, matches, pc, ep, chart, launch, cache, now, app>>

AvailableFiltersCall ==
    /\ pc = "idle" /\ call.fn = "none"
    /\ \E lost1, lost2, lost3 \in BOOLEAN :
         Return("get_available_filters", NoFilters, <<lost1, lost2, lost3>>,
                GetAvailableFilters(lost1, lost2, lost3))
    /\ UNCHANGED <<dbUp, raw, matches, preds, pc, ep, chart, launch, cache, now, app>>

LeagueStatisticsCall ==
    /\ pc = "idle" /\ call.fn = "none"
    /\ \E lost \in BOOLEAN :
         Return("get_league_statistics", NoFilters, <<lost>>, GetLeagueStatistics(lost))
    /\ UNCHANGED <<dbUp, raw, matches, preds, pc, ep, chart, launch, cache, now, app>>

ListFunctions ==
    {"get_raw_data_leagues", "get_raw_data_seasons", "get_teams", "get_raw_data_teams",
     "get_league_table_leagues", "get_league_table_seasons", "get_league_table_teams"}

ListResult(fn, lost) ==
    CASE fn = "get_raw_data_leagues" -> GetRawDataLeagues(lost)
      [] fn = "get_raw_data_seasons" -> GetRawDataSeasons(lost)
      [] fn = "get_teams" -> GetTeams(lost)
      [] fn = "get_raw_data_teams" -> GetRawDataTeams(lost)
      [] fn = "get_league_table_leagues" -> GetLeagueTableLeagues(lost)
      [] fn = "get_league_table_seasons" -> GetLeagueTableSeasons(lost)
      [] fn = "get_league_table_teams" -> GetLeagueTableTeams(lost)

ListCall ==
    /\ pc = "idle" /\ call.fn = "none"
    /\ \E fn \in ListFunctions, lost \in BOOLEAN :
         Return(fn, NoFilters, <<lost>>, ListResult(fn, lost))
    /\ UNCHANGED <<dbUp, raw, matches, preds, pc, ep, chart, launch, cache, now, app>>

TeamStatisticsArgs ==
    [home_team : {"T1"}, away_team : {"T2", "T3"}, season : {PyNone, PyStr("S1")}]

TeamStatisticsCall ==
    /\ pc = "idle" /\ call.fn = "none"
    /\ \E a \in TeamStatisticsArgs, lost1, lost2 \in BOOLEAN :
         Return("get_team_statistics", a, <<lost1, lost2>>,
                GetTeamStatistics(a, lost1, lost2))
    /\ UNCHANGED <<dbUp, raw, matches, preds, pc, ep, chart, launch, cache, now, app>>

\* get_enhanced_predictions is entered and, when asked for the last session,
\* runs its lookup query; atCall is the largest session_id as it is entered
EnhancedPredictionsStart ==
    /\ pc = "idle" /\ call.fn = "none"
    /\ \E fn \in {"get_enhanced_predictions", "get_last_session_predictions"},
          a \in EPArgs, lost \in BOOLEAN :
         /\ fn = "get_last_session_predictions" => a = LastSessionArgs
         /\ (~a.last_session_only) => ~lost
         /\ ep' = [started |-> TRUE, fn |-> fn, args |-> a, atCall |-> MaxSessionId(preds),
                   loc |-> SessionLookup(a, lost)]
    /\ conns' = ConnsAfter(ep'.loc.queries)
    /\ pc' = "ep_query"
    /\ UNCHANGED <<dbUp, raw, matches, preds, call, notices, chart, launch, cache, now, app>>

\* the main query runs and the function returns
EnhancedPredictionsFinish ==
    /\ pc = "ep_query"
    /\ \E lost \in BOOLEAN :
         ReturnAt(ep.fn, ep.args, ep.loc.faults \o <<lost>>, ep.atCall,
                  EnhancedQuery(ep.args, ep.loc, lost))
    /\ pc' = "idle"
    /\ ep' = NoEp
    /\ UNCHANGED <<dbUp, raw, matches, preds, chart, launch, cache, now, app>>

\* the store becomes unreachable, or reachable again
DbGoesDown ==
    /\ call.fn = "none" /\ dbUp
    /\ dbUp' = FALSE
    /\ UNCHANGED <<raw, matches, preds, pc, ep, call, notices, chart, conns, launch, cache, now, app>>

DbComesUp ==
    /\ call.fn = "none" /\ ~dbUp
    /\ dbUp' = TRUE
    /\ UNCHANGED <<raw, matches, preds, pc, ep, call, notices, chart, conns, launch, cache, now, app>>

\* the predictions one external model run writes
Batches(sid) ==
    {{PredRow(sid, "L1", "T1", "T2", "D1", "M1")},
     {PredRow(sid, "L2", "T2", "T3", "D3", "M2"), PredRow(sid, "L1", "T1", "T3", "D2", "M1")}}

\* an external model run adds a session: the next session_id
InsertSession ==
    /\ call.fn = "none"
    /\ MaxSessionId(preds) < MaxSession
    /\ \E batch \in Batches(MaxSessionId(preds) + 1) : preds' = preds \cup batch
    /\ UNCHANGED <<dbUp, raw, matches, pc, ep, call, notices, chart, conns, launch, cache, now, app>>

\* raw_data: two seasons of played matches, one row without scores
SampleMatches ==
    LET m1 == [Season |-> "S1", FTHG |-> SqlInt(2), FTAG |-> SqlInt(1)]
        m2 == [Season |-> "S1", FTHG |-> SqlInt(0), FTAG |-> SqlInt(0)]
        m3 == [Season |-> "S2", FTHG |-> SqlInt(1), FTAG |-> SqlInt(3)]
        m4 == [Season |-> "S2", FTHG |-> SqlNull, FTAG |-> SqlNull]
    IN  [m \in {m1, m2, m3, m4} |-> IF m = m1 THEN 2 ELSE 1]

\* small filter sets for the calls of the full dashboard
SomeFilterSets ==
    {NoFilters,
     [NoFilters EXCEPT !.league = PyList(<<"L1">>), !.date_from = PyStr("D2")],
     [NoFilters EXCEPT !.team = PyList(<<"T1", "T2">>), !.season = PyStr("S1")],
     [NoFilters EXCEPT !.league = PyList(<<"L2">>), !.team = PyList(<<"T1">>)],
     [NoFilters EXCEPT !.season = PyList(<<>>), !.date_to = PyStr("D1")]}

Init ==
    /\ dbUp = TRUE
    /\ \E st \in {<<EmptyBag, EmptyBag>>, <<FilterStore, SampleMatches>>} :
         raw = st[1] /\ matches = st[2]
    /\ preds = {}
    /\ pc = "idle"
    /\ ep = NoEp
    /\ call = NoCall
    /\ notices = <<>>
    /\ chart = NoChart
    /\ conns = 0
    /\ launch = NoLaunch
    /\ cache = NoCache
    /\ now = 0
    /\ app = NoApp

Next ==
    \/ ExecuteQueryCall
    \/ RawDataKeyMetricsCall(SomeFilterSets, BOOLEAN)
    \/ RawDataAnalyticsCall(SomeFilterSets, BOOLEAN)
    \/ GoalsShotsFilteredDataCall(SomeFilterSets, BOOLEAN)
    \/ LeagueGoalsShotsAnalyticsCall(SomeFilterSets, BOOLEAN)
    \/ LeagueTableCall(SomeFilterSets, BOOLEAN)
    \/ AvailableFiltersCall
    \/ LeagueStatisticsCall
    \/ ListCall
    \/ TeamStatisticsCall
    \/ EnhancedPredictionsStart
    \/ EnhancedPredictionsFinish
    \/ DbGoesDown
    \/ DbComesUp
    \/ InsertSession
    \/ ScriptRunEnds

Spec == Init /\ [][Next]_vars

----------------------------------------------------------------------------
(* Properties of the filter step *)

RawFunctions ==
    {"get_raw_data_key_metrics", "get_raw_data_analytics",
     "get_goals_shots_filtered_data", "get_league_goals_shots_analytics"}

\* a filter that was not provided: None, the empty string or the empty list
Absent(x) == x.t = "none" \/ (x.t = "str" /\ x.s = "") \/ (x.t = "list" /\ x.l = <<>>)

AllAbsent(f) ==
    /\ Absent(f.league) /\ Absent(f.season) /\ Absent(f.team)
    /\ Absent(f.date_from) /\ Absent(f.date_to)

\* the values a provided filter admits
Admits(x) == IF x.t = "list" THEN {x.l[i] : i \in DOMAIN x.l} ELSE {x.s}

\* C4: a raw-data aggregation function called with every filter None or empty
\* builds an empty where_clause and no parameters, and runs its queries with
\* no parameters and no placeholder
C4_NoFiltersNoPredicates ==
    (call.fn \in RawFunctions /\ AllAbsent(call.args)) =>
        /\ call.where = <<>>
        /\ call.params = <<>>
        /\ \A i \in DOMAIN call.queries :
             /\ call.queries[i].params = <<>>
             /\ NumPlaceholders(call.queries[i].q) = 0

C4_Witness ==
    /\ call.fn = "get_raw_data_key_metrics"
    /\ call.args.league = PyList(<<>>)
    /\ call.args.team = PyStr("")
    /\ call.args.date_from = PyNone
    /\ AllAbsent(call.args)
    /\ call.ret.total_games = 5

\* the where_clause and parameters a function builds for the filter set f
BuildOf(fn, f) ==
    CASE fn = "get_raw_data_key_metrics" -> KeyMetricsBuild(f)
      [] fn = "get_raw_data_analytics" -> AnalyticsBuild(f)
      [] fn = "get_goals_shots_filtered_data" -> GoalsShotsBuild(f)
      [] fn = "get_league_goals_shots_analytics" -> LeagueGoalsShotsBuild(f)
      [] fn = "get_league_table" -> LeagueTableBuild(f)

\* an IN list of the text has no value: IN ()
HasEmptyIn(toks) ==
    \E i \in DOMAIN toks :
        /\ toks[i].k = "kw" /\ toks[i].v = "IN"
        /\ toks[i + 2].k = "kw" /\ toks[i + 2].v = ")"

\* C5: for the league, season and team filters, a call that passes [] builds
\* the fragments and parameters the same call builds with None in its place,
\* and its text holds no IN ()
C5_EmptyListIsAbsent ==
    (call.fn \in RawFunctions \cup {"get_league_table"}) =>
        /\ ~HasEmptyIn(call.where)
        /\ \A fld \in {"league", "season", "team"} :
             call.args[fld] = PyList(<<>>) =>
                LET g == [call.args EXCEPT ![fld] = PyNone]
                IN  /\ call.where = WhereClause(BuildOf(call.fn, g).conds)
                    /\ call.params = BuildOf(call.fn, g).params

C5_Witness ==
    /\ call.fn = "get_league_table"
    /\ call.args.league = PyList(<<>>)
    /\ call.args.team = PyList(<<"T1">>)
    /\ call.params = <<"T1">>
    /\ Len(call.ret.rows) = 2

\* the rows a where_clause with its parameters bound selects; the clause
\* starts with AND, as it follows the template's own condition
Selected(where, params, S) == Select(<<KW("1=1")>> \o BindTokens(where, params, 1), S)

\* rows a predicate is tried on: every combination of a value the filters
\* name, a value they do not name, and NULL
ProbeRows ==
    {RawRow(lg, se, ht, at, d, "H", 1, 1) :
        lg \in {"L1", "L2", NULL}, se \in {"S1", "S2"},
        ht \in {"T1", "T2", "T3"}, at \in {"T1", "T2", NULL}, d \in {"D1", "D2", "D3"}}

RECURSIVE Occurrences(_, _)
Occurrences(q, x) ==
    IF q = <<>> THEN 0 ELSE (IF q[1] = x THEN 1 ELSE 0) + Occurrences(Tail(q), x)

\* C6: with the team filter the list [A, B] (A, B distinct) the parameters of
\* the team filter are A, B, A, B, following those of league and season, each of
\* A and B occurring twice; with no other filter the predicate selects the rows
\* whose HT or AT is A or B
C6_TeamListPredicate ==
    (call.fn \in RawFunctions /\ call.args.team.t = "list" /\ Len(call.args.team.l) = 2) =>
        LET A == call.args.team.l[1]
            B == call.args.team.l[2]
            k == (IF Absent(call.args.league) THEN 0
                  ELSE IF call.args.league.t = "list" THEN Len(call.args.league.l) ELSE 1)
                 + (IF Absent(call.args.season) THEN 0
                    ELSE IF call.args.season.t = "list" THEN Len(call.args.season.l) ELSE 1)
        IN  /\ Len(call.params) >= k + 4
            /\ SubSeq(call.params, k + 1, k + 4) = <<A, B, A, B>>
            /\ Occurrences(call.params, A) = 2
            /\ Occurrences(call.params, B) = 2
            /\ (Absent(call.args.league) /\ Absent(call.args.season)
                  /\ Absent(call.args.date_from) /\ Absent(call.args.date_to)) =>
                 Selected(call.where, call.params, ProbeRows)
                    = {r \in ProbeRows : r.HT \in {A, B} \/ r.AT \in {A, B}}

C6_Witness ==
    /\ call.fn = "get_raw_data_analytics"
    /\ call.args.team = PyList(<<"T1", "T2">>)
    /\ call.args.league = PyNone
    /\ call.params = <<"T1", "T2", "T1", "T2">>
    /\ call.ret.total_games = 5

\* the restriction the filter set f asks for
Restriction(f, r) ==
    /\ Absent(f.league) \/ r.League \in Admits(f.league)
    /\ Absent(f.season) \/ r.Season \in Admits(f.season)
    /\ Absent(f.team) \/ r.HT \in Admits(f.team) \/ r.AT \in Admits(f.team)
    /\ Absent(f.date_from)
         \/ (r.GameDate # NULL /\ DateOrd(r.GameDate) >= DateOrd(f.date_from.s))
    /\ Absent(f.date_to)
         \/ (r.GameDate # NULL /\ DateOrd(r.GameDate) <= DateOrd(f.date_to.s))

\* C7: the where_clause a raw-data aggregation function composes, with its
\* parameters bound, selects a row exactly when the row passes every provided
\* filter: league, season, team (home or away), date_from, date_to
C7_RestrictionIsConjunction ==
    call.fn \in RawFunctions =>
        Selected(call.where, call.params, ProbeRows)
            = {r \in ProbeRows : Restriction(call.args, r)}

C7_Witness ==
    /\ call.fn = "get_raw_data_analytics"
    /\ call.args.league = PyStr("L1")
    /\ call.args.season = PyList(<<"S1">>)
    /\ call.args.team = PyList(<<"T2", "T1">>)
    /\ call.args.date_from = PyNone
    /\ call.args.date_to = PyStr("D2")
    /\ call.ret.total_games = 2
    /\ call.ret.home_percentage = 1000

\* the value the filter set f gives the j-th placeholder of a comparison on col
ValueFor(f, col, op, j) ==
    LET x == CASE col = "League" -> f.league
               [] col = "Season" -> f.season
               [] col \in {"HT", "AT"} -> f.team
               [] col = "GameDate" /\ op = ">=" -> f.date_from
               [] OTHER -> f.date_to
    IN  IF x.t = "list" THEN (IF j \in DOMAIN x.l THEN x.l[j] ELSE "?") ELSE x.s

\* reading the text left to right: for each placeholder, the value of the
\* filter whose comparison it stands in
RECURSIVE Expected(_, _, _, _, _, _)
Expected(f, toks, i, col, op, j) ==
    IF i > Len(toks) THEN <<>>
    ELSE IF toks[i].k = "ph"
         THEN <<ValueFor(f, col, op, j + 1)>> \o Expected(f, toks, i + 1, col, op, j + 1)
         ELSE IF toks[i].v \in RawColumns
              THEN Expected(f, toks, i + 1, toks[i].v, toks[i + 1].v, 0)
              ELSE Expected(f, toks, i + 1, col, op, j)

\* C8: in every query a raw-data aggregation function issues, the parameter
\* tuple has one value per %s of the text, and the k-th value is that of the
\* filter whose comparison holds the k-th %s (the team-count query included)
C8_PlaceholdersMatchParams ==
    call.fn \in RawFunctions =>
        \A i \in DOMAIN call.queries :
            LET text == FlatParts(call.queries[i].q.parts)
            IN  /\ NumPlaceholders(call.queries[i].q) = Len(call.queries[i].params)
                /\ call.queries[i].params = Expected(call.args, text, 1, "", "", 0)

C8_Witness ==
    /\ call.fn = "get_raw_data_key_metrics"
    /\ call.args.league = PyStr("L1")
    /\ call.args.team = PyList(<<"T1", "T2">>)
    /\ call.args.date_to = PyStr("D2")
    /\ Len(call.queries) = 2
    /\ NumPlaceholders(call.queries[2].q) = 12
    /\ call.ret.total_teams = 2

----------------------------------------------------------------------------
(* Properties of the query executor and of the data-access functions *)

\* C1: execute_query never raises; when the connection cannot be opened, or
\* the statement fails while it runs or is rejected (parameters that do not
\* fit, an unknown column or table), it returns the empty table and reports
\* the failure through st.error
C1_ExecuteQueryNeverRaises ==
    call.fn = "execute_query" =>
        /\ ~call.raised
        /\ ~dbUp => (call.ret = EmptyDF /\ notices = <<ConnectNotice>>)
        /\ (dbUp /\ (call.faults[1] \/ ExecuteRaises(call.args.q, call.args.params))) =>
             (call.ret = EmptyDF /\ notices = <<QueryNotice>>)

C1_Witness ==
    /\ call.fn = "execute_query"
    /\ dbUp /\ ~call.faults[1]
    /\ call.args.q.tpl = "league_table"
    /\ \E i \in DOMAIN call.args.q.parts[1] : call.args.q.parts[1][i] = KW("no_such_column")
    /\ call.ret = EmptyDF
    /\ notices = <<QueryNotice>>
    /\ ~call.raised

DataAccessFunctions ==
    {"get_enhanced_predictions", "get_last_session_predictions", "get_available_filters",
     "get_raw_data_key_metrics", "get_raw_data_analytics", "get_goals_shots_filtered_data",
     "get_league_goals_shots_analytics", "get_team_statistics", "get_league_table",
     "get_league_statistics"} \cup ListFunctions

\* C2: when the store is unreachable or a query of the call fails, no
\* data-access function of db.py raises
C2_FailuresNeverPropagate ==
    (call.fn \in DataAccessFunctions /\ (~dbUp \/ \E i \in DOMAIN call.faults : call.faults[i]))
        => ~call.raised

\* C3: a call with last_session_only=True returns only rows of the largest
\* session_id of enhanced_predictions at call time (as the function is entered,
\* or as its main query runs)
C3_LastSessionOnly ==
    (call.fn \in {"get_enhanced_predictions", "get_last_session_predictions"}
       /\ call.args.last_session_only) =>
        \A i \in DOMAIN call.ret.rows :
            call.ret.rows[i].session_id \in {call.atCall, MaxSessionId(preds)}

\* the rows of model_raw_data that qualify for the filter set f
Qualifying(f) == {r \in Support(raw) : r.RESULT \in Results /\ Restriction(f, r)}

\* the rows of raw_data that get_league_statistics groups
QualifyingMatches == {m \in Support(matches) : ~m.FTHG.null /\ ~m.FTAG.null}

\* a table carries the percentage column pct and it is 0 in every row
PercentageZero(df, pct) ==
    /\ pct \in df.cols
    /\ df.rows # <<>>
    /\ \A i \in DOMAIN df.rows : df.rows[i][pct] = 0

----------------------------------------------------------------------------
(* Properties of the percentages *)

Abs(x) == IF x < 0 THEN 0 - x ELSE x

\* p, in tenths of a percent, is count / total * 100 rounded to one decimal
\* place: no further than 0.05 from it
RoundedToOneDecimal(p, count, total) == 2 * Abs(p * total - 1000 * count) <= total

\* the number of rows of model_raw_data with the result res
Count(res) == BagSum(raw, {r \in Support(raw) : r.RESULT = res})

\* C10: with h + a + d > 0 rows, get_raw_data_analytics reports each percentage
\* as count / total * 100 rounded to one decimal place, the chart derives the
\* same three values from the dict, and h=6, d=2, a=2 gives 60.0, 20.0, 20.0
C10_PercentagesRounded ==
    (call.fn = "get_raw_data_analytics" /\ Count("H") + Count("A") + Count("D") > 0) =>
        LET total == Count("H") + Count("A") + Count("D")
        IN  /\ call.ret.total_games = total
            /\ RoundedToOneDecimal(call.ret.home_percentage, Count("H"), total)
            /\ RoundedToOneDecimal(call.ret.away_percentage, Count("A"), total)
            /\ RoundedToOneDecimal(call.ret.draw_percentage, Count("D"), total)
            /\ chart.drawn =>
                 /\ chart.home_pct = call.ret.home_percentage
                 /\ chart.away_pct = call.ret.away_percentage
                 /\ chart.draw_pct = call.ret.draw_percentage
            /\ (Count("H") = 6 /\ Count("D") = 2 /\ Count("A") = 2) =>
                 /\ call.ret.home_percentage = 600
                 /\ call.ret.draw_percentage = 200
                 /\ call.ret.away_percentage = 200

C10_Witness ==
    /\ call.fn = "get_raw_data_analytics"
    /\ Count("H") = 6 /\ Count("D") = 2 /\ Count("A") = 2
    /\ call.ret.home_percentage = 600
    /\ chart.drawn
    /\ chart.home_pct = 600 /\ chart.draw_pct = 200 /\ chart.away_pct = 200

----------------------------------------------------------------------------
(* Properties of the league-level percentages *)

\* p, in hundredths of a percent, is count / total * 100 rounded to one decimal
\* place: a whole number of tenths, at most 0.05 from the exact quotient
HundredthsToOneDecimal(p, count, total) ==
    /\ p % 10 = 0
    /\ Abs(p * total - 10000 * count) <= 5 * total

\* the percentages of one row of get_league_statistics
SeasonPercentagesOneDecimal(r) ==
    /\ HundredthsToOneDecimal(r.home_win_percentage, r.home_wins, r.total_matches)
    /\ HundredthsToOneDecimal(r.away_win_percentage, r.away_wins, r.total_matches)
    /\ HundredthsToOneDecimal(r.draw_percentage, r.draws, r.total_matches)

\* goals_shots_percentage of one row of get_league_goals_shots_analytics, in
\* tenths: AVG(goals) / AVG(shots) * 100 to one decimal, 0 when AVG(shots) is 0
GoalsShotsPercentageOneDecimal(r) ==
    IF r.avg_shots.n = 0 THEN r.goals_shots_percentage = 0
    ELSE RoundedToOneDecimal(r.goals_shots_percentage,
                             r.avg_goals.n * r.avg_shots.d, r.avg_shots.n * r.avg_goals.d)

\* C11: every percentage the league-level aggregation functions return
\* (home_win_percentage, away_win_percentage and draw_percentage of
\* get_league_statistics, goals_shots_percentage of
\* get_league_goals_shots_analytics) is subset / total * 100 rounded to one
\* decimal place, and 0 when the denominator is 0
C11_LeaguePercentagesOneDecimal ==
    /\ call.fn = "get_league_statistics" =>
          \A i \in DOMAIN call.ret.rows : SeasonPercentagesOneDecimal(call.ret.rows[i])
    /\ call.fn = "get_league_goals_shots_analytics" =>
          \A i \in DOMAIN call.ret.rows : GoalsShotsPercentageOneDecimal(call.ret.rows[i])

----------------------------------------------------------------------------
(* Properties of the averages *)

AnalyticsAverages ==
    {"avg_goals", "avg_shots",
     "avg_winning_home_odds", "avg_winning_draw_odds", "avg_winning_away_odds",
     "avg_overall_home_odds", "avg_overall_draw_odds", "avg_overall_away_odds"}

GoalsShotsAverages == {"avg_goals", "avg_shots"}

\* the call's query reached the store and was answered
Answered == dbUp /\ \A i \in DOMAIN call.faults : ~call.faults[i]

\* the WHERE text of the call's query with its parameters bound
BoundWhere == RawBase \o BindTokens(call.where, call.params, 1)

\* C12: in the dicts returned by get_raw_data_analytics and
\* get_goals_shots_filtered_data every average-valued field is the number 0,
\* never null or NaN, whenever the SQL aggregate under it is null because no
\* row qualifies
C12_NullAveragesAreZero ==
    /\ call.fn = "get_raw_data_analytics" =>
          /\ Qualifying(call.args) = {} =>
                \A fld \in AnalyticsAverages : call.ret[fld] = 0
          /\ Answered =>
                \A fld \in AnalyticsAverages :
                    AnalyticsRows(BoundWhere)[1][fld].null => call.ret[fld] = 0
    /\ call.fn = "get_goals_shots_filtered_data" =>
          /\ Qualifying(call.args) = {} =>
                \A fld \in GoalsShotsAverages : call.ret[fld] = 0
          /\ Answered =>
                \A fld \in GoalsShotsAverages :
                    GoalsShotsRows(BoundWhere)[1][fld].null => call.ret[fld] = 0

\* the analytics query was answered from a store that holds matches, none of
\* which passes the filters: every aggregate is NULL and every average is 0
C12_Witness ==
    /\ call.fn = "get_raw_data_analytics" /\ Answered
    /\ Support(raw) # {} /\ Qualifying(call.args) = {}
    /\ \A fld \in AnalyticsAverages :
          AnalyticsRows(BoundWhere)[1][fld].null /\ call.ret[fld] = 0

----------------------------------------------------------------------------
(* Properties of the outcomes of execute_query *)

\* what execute_query returns for a valid query that selects no row
ZeroRowsValue == DataFrame(<<>>)

\* the call of execute_query ended in a connection failure or a query failure
Failed ==
    \/ ~dbUp
    \/ call.faults[1]
    \/ ExecuteRaises(call.args.q, call.args.params)

\* C13: the empty-result outcome is distinguished from the failure outcomes:
\* the value execute_query returns after a connection failure or a query
\* failure differs from the value it returns for a valid query with zero rows
C13_EmptyResultDistinguished ==
    (call.fn = "execute_query" /\ Failed) => call.ret # ZeroRowsValue

----------------------------------------------------------------------------
(* test_database_connection and the launcher scripts launch.py and run.py *)

\* test_database_connection(): lost is a failure of "SELECT 1" on the open
\* connection.  left: the connections the call opened and did not close, the
\* except clause returning without conn.close()
TestDatabaseConnection(lost) ==
    IF ~dbUp THEN [ret |-> FALSE, left |-> 0]
    ELSE IF lost THEN [ret |-> FALSE, left |-> 1]
    ELSE [ret |-> TRUE, left |-> 0]

\* a launcher as it is started: the script, detect_cloud_environment(),
\* whether .env exists and whether the required packages import
Launchers ==
    {[script |-> sc, is_cloud |-> c, env_file |-> e, packages |-> p, pc |-> "start",
      passed |-> <<>>, test |-> "none", started |-> "none", exit |-> "none"] :
        sc \in {"launch.py", "run.py"}, c \in BOOLEAN, e \in BOOLEAN, p \in BOOLEAN}

\* variant: the .env file required in the cloud as well
LaunchCheckEnvRequired ==
    /\ launch.script = "launch.py" /\ launch.pc = "start"
    /\ launch' = IF ~launch.env_file
                 THEN [launch EXCEPT !.pc = "done", !.exit = "1"]
                 ELSE [launch EXCEPT !.pc = "packages", !.passed = Append(@, "env")]
    /\ UNCHANGED <<dbUp, raw, matches, preds, pc, ep, call, notices, chart, conns, cache, now, app>>

\* launch.py main: the .env file is required locally, optional in the cloud
LaunchCheckEnv ==
    /\ launch.script = "launch.py" /\ launch.pc = "start"
    /\ launch' = IF ~launch.is_cloud /\ ~launch.env_file
                 THEN [launch EXCEPT !.pc = "done", !.exit = "1"]
                 ELSE [launch EXCEPT !.pc = "packages",
                                     !.passed = IF launch.env_file
                                                THEN Append(@, "env") ELSE @]
    /\ UNCHANGED <<dbUp, raw, matches, preds, pc, ep, call, notices, chart, conns, cache, now, app>>

\* launch.py main: import streamlit, psycopg2, plotly, pandas, dotenv
LaunchImportPackages ==
    /\ launch.script = "launch.py" /\ launch.pc = "packages"
    /\ launch' = IF launch.packages
                 THEN [launch EXCEPT !.pc = "dbtest", !.passed = Append(@, "packages")]
                 ELSE [launch EXCEPT !.pc = "done", !.exit = "1"]
    /\ UNCHANGED <<dbUp, raw, matches, preds, pc, ep, call, notices, chart, conns, cache, now, app>>

\* what the launcher's call of test_database_connection comes to: raised when
\* importing db or building the manager raises, else the value returned;
\* finalized: the interpreter has closed the connection object the call left
\* behind unreferenced
TestOutcomes ==
    {[raised |-> x, lost |-> l, finalized |-> f] : x \in BOOLEAN, l \in BOOLEAN, f \in BOOLEAN}

TestPassed(o) == ~o.raised /\ TestDatabaseConnection(o.lost).ret

TestResult(o) == IF o.raised THEN "raised" ELSE IF TestPassed(o) THEN "true" ELSE "false"

ConnsAfterTest(o) ==
    IF o.raised \/ o.finalized THEN conns ELSE conns + TestDatabaseConnection(o.lost).left

\* variant: a failed database test is not blocking in the local environment either
LaunchTestDatabaseNonBlocking ==
    /\ launch.script = "launch.py" /\ launch.pc = "dbtest"
    /\ \E o \in TestOutcomes :
         /\ launch' = IF TestPassed(o)
                      THEN [launch EXCEPT !.pc = "start_app", !.test = "true",
                                          !.passed = Append(@, "db")]
                      ELSE [launch EXCEPT !.pc = "start_app", !.test = TestResult(o)]
         /\ conns' = ConnsAfterTest(o)
    /\ UNCHANGED <<dbUp, raw, matches, preds, pc, ep, call, notices, chart, cache, now, app>>

\* launch.py main: the database test, blocking only in the local environment
LaunchTestDatabase ==
    /\ launch.script = "launch.py" /\ launch.pc = "dbtest"
    /\ \E o \in TestOutcomes :
         /\ launch' = IF TestPassed(o)
                      THEN [launch EXCEPT !.pc = "start_app", !.test = "true",
                                          !.passed = Append(@, "db")]
                      ELSE IF launch.is_cloud
                           THEN [launch EXCEPT !.pc = "start_app", !.test = TestResult(o)]
                           ELSE [launch EXCEPT !.pc = "done", !.test = TestResult(o),
                                               !.exit = "1"]
         /\ conns' = ConnsAfterTest(o)
    /\ UNCHANGED <<dbUp, raw, matches, preds, pc, ep, call, notices, chart, cache, now, app>>

\* launch.py main: exec(open('app.py').read()) in the cloud, subprocess.run of
\* "streamlit run app.py" locally; ok: the statement ended without an exception
LaunchStartApp ==
    /\ launch.script = "launch.py" /\ launch.pc = "start_app"
    /\ \E ok \in BOOLEAN :
         launch' = IF launch.is_cloud
                   THEN [launch EXCEPT !.pc = "done", !.started = "exec",
                                       !.exit = IF ok THEN "0" ELSE "1"]
                   ELSE [launch EXCEPT !.pc = "done", !.started = "subprocess",
                                       !.exit = IF ok THEN "returncode" ELSE "1"]
    /\ UNCHANGED <<dbUp, raw, matches, preds, pc, ep, call, notices, chart, conns, cache, now, app>>

\* run.py: the imports and load_dotenv(); an exception ends the script
RunImports ==
    /\ launch.script = "run.py" /\ launch.pc = "start"
    /\ launch' = IF launch.packages
                 THEN [launch EXCEPT !.pc = "dbtest", !.passed = Append(@, "packages")]
                 ELSE [launch EXCEPT !.pc = "done", !.exit = "0"]
    /\ UNCHANGED <<dbUp, raw, matches, preds, pc, ep, call, notices, chart, conns, cache, now, app>>

\* run.py: if test_database_connection(): ... else: print(...)
RunTestDatabase ==
    /\ launch.script = "run.py" /\ launch.pc = "dbtest"
    /\ \E o \in TestOutcomes :
         /\ launch' = IF TestPassed(o)
                      THEN [launch EXCEPT !.pc = "start_app", !.test = "true",
                                          !.passed = Append(@, "db")]
                      ELSE [launch EXCEPT !.pc = "done", !.test = TestResult(o),
                                          !.exit = "0"]
         /\ conns' = ConnsAfterTest(o)
    /\ UNCHANGED <<dbUp, raw, matches, preds, pc, ep, call, notices, chart, cache, now, app>>

\* run.py: subprocess.run(["streamlit", "run", "app.py", ...])
RunStartStreamlit ==
    /\ launch.script = "run.py" /\ launch.pc = "start_app"
    /\ launch' = [launch EXCEPT !.pc = "done", !.started = "subprocess", !.exit = "0"]
    /\ UNCHANGED <<dbUp, raw, matches, preds, pc, ep, call, notices, chart, conns, cache, now, app>>

\* the application the launcher started hands queries to execute_query
AppQuery == launch.started # "none" /\ ExecuteQueryCall

InitLaunch ==
    /\ dbUp \in BOOLEAN
    /\ raw = FilterStore
    /\ matches = EmptyBag
    /\ preds = {}
    /\ pc = "idle"
    /\ ep = NoEp
    /\ call = NoCall
    /\ notices = <<>>
    /\ chart = NoChart
    /\ conns = 0
    /\ launch \in Launchers
    /\ cache = NoCache
    /\ now = 0
    /\ app = NoApp

NextLaunch ==
    \/ LaunchCheckEnv
    \/ LaunchImportPackages
    \/ LaunchTestDatabase
    \/ LaunchStartApp
    \/ RunImports
    \/ RunTestDatabase
    \/ RunStartStreamlit
    \/ AppQuery
    \/ ScriptRunEnds
    \/ DbGoesDown
    \/ DbComesUp

SpecLaunch == InitLaunch /\ [][NextLaunch]_vars

----------------------------------------------------------------------------
(* Properties of the connections and of the launchers *)

\* C14: every connection that was opened is closed before the operation that
\* opened it returns, on every path through execute_query and through
\* test_database_connection: between operations no connection is open
C14_NoConnectionLeftOpen == conns = 0

AllChecks == <<"env", "packages", "db">>

\* C19: locally launch.py starts the Streamlit subprocess only after the .env
\* file was found, the packages imported and test_database_connection
\* returned True, in this order, and returns 1 without starting Streamlit when
\* a check fails; run.py starts Streamlit only after test_database_connection
\* returned True
C19_LocalLaunchAfterChecks ==
    /\ (launch.script = "launch.py" /\ ~launch.is_cloud) =>
          /\ launch.started # "none" => launch.passed = AllChecks /\ launch.test = "true"
          /\ (launch.pc = "done" /\ launch.passed # AllChecks) =>
                launch.exit = "1" /\ launch.started = "none"
    /\ launch.script = "run.py" =>
          (launch.started # "none" => launch.test = "true")

\* the local launcher started the Streamlit subprocess
C19_Witness ==
    /\ launch.script = "launch.py" /\ ~launch.is_cloud
    /\ launch.started = "subprocess" /\ launch.passed = AllChecks

\* C20: in the cloud the database test does not block: when the packages
\* import, launch.py goes on to execute app.py whether
\* test_database_connection returned True, returned False or raised, and
\* whether or not a .env file exists
C20_CloudTestNonBlocking ==
    (launch.script = "launch.py" /\ launch.is_cloud /\ launch.packages
       /\ launch.pc = "done") => launch.started = "exec"

\* app.py was executed in the cloud with no .env file after the test raised
C20_Witness ==
    /\ launch.script = "launch.py" /\ launch.is_cloud /\ ~launch.env_file
    /\ launch.test = "raised" /\ launch.started = "exec"

----------------------------------------------------------------------------
(* Properties of the store *)

----------------------------------------------------------------------------
(* Properties of the filter step across the functions *)

\* C16: the four raw-data aggregation functions build the same where_clause
\* and the same parameters for every filter set, and for the same filter set
\* and store get_raw_data_key_metrics, get_raw_data_analytics and
\* get_goals_shots_filtered_data report the same total_games
C16_SameFilterStep ==
    call.fn \in RawFunctions =>
        /\ \A fn \in RawFunctions :
             /\ WhereClause(BuildOf(fn, call.args).conds) = call.where
             /\ BuildOf(fn, call.args).params = call.params
        /\ GetRawDataKeyMetrics(call.args, FALSE, FALSE).ret.total_games
             = GetRawDataAnalytics(call.args, FALSE).ret.total_games
        /\ GetRawDataAnalytics(call.args, FALSE).ret.total_games
             = GetGoalsShotsFilteredData(call.args, FALSE).ret.total_games
        /\ call.fn # "get_league_goals_shots_analytics" =>
             call.ret.total_games = GetRawDataKeyMetrics(call.args, FALSE, FALSE).ret.total_games

\* get_raw_data_analytics counted matches under a team list and a date_to
C16_Witness ==
    /\ call.fn = "get_raw_data_analytics"
    /\ call.args.team.t = "list" /\ call.args.team.l # <<>>
    /\ call.args.date_to.t = "str" /\ Truthy(call.args.date_to)
    /\ call.ret.total_games > 0
    /\ call.ret.total_games < GetRawDataAnalytics(NoFilters, FALSE).ret.total_games

----------------------------------------------------------------------------
(* Properties of get_enhanced_predictions with last_session_only *)

EPFunctions == {"get_enhanced_predictions", "get_last_session_predictions"}

\* the main query of the call was answered by the store
MainAnswered == dbUp /\ ~call.faults[Len(call.faults)]

\* the lookup of the call found a latest session: it was answered (no error
\* was shown for it) and the store held a session
SessionFound == call.args.last_session_only /\ call.atCall > 0 /\ notices = <<>>

\* the team, league and model filters of the call admit the prediction
PassesFilters(p, a) ==
    /\ Truthy(a.team_filter) => a.team_filter.s \in {p.home_team, p.away_team}
    /\ Truthy(a.league_filter) => p.league = a.league_filter.s
    /\ Truthy(a.model_filter) => p.model = a.model_filter.s

\* the date filters of the call admit the prediction
PassesDates(p, a) ==
    /\ Truthy(a.date_from) => Ord(p.game_date) >= Ord(a.date_from.s)
    /\ Truthy(a.date_to) => Ord(p.game_date) <= Ord(a.date_to.s)

\* C17: get_enhanced_predictions with last_session_only=True: when the lookup
\* finds a latest session the date filters are cleared and the team, league
\* and model filters apply conjunctively with session_id = that session; when
\* it finds none the date filters apply as given
C17_LastSessionClearsDates ==
    (call.fn \in EPFunctions /\ call.args.last_session_only /\ MainAnswered) =>
        {call.ret.rows[i] : i \in DOMAIN call.ret.rows}
          = IF SessionFound
            THEN {p \in preds : p.session_id = call.atCall /\ PassesFilters(p, call.args)}
            ELSE {p \in preds : PassesFilters(p, call.args) /\ PassesDates(p, call.args)}

\* with a session found, a prediction outside the given dates was returned
C17_Witness ==
    /\ call.fn = "get_enhanced_predictions" /\ call.args.last_session_only
    /\ MainAnswered /\ SessionFound
    /\ call.args.date_from = PyStr("D2") /\ call.args.team_filter = PyStr("T1")
    /\ \E i \in DOMAIN call.ret.rows : call.ret.rows[i].game_date = "D1"

----------------------------------------------------------------------------
(* st.cache_data and load_dashboard_data of app.py *)

\* seconds an entry lives: ttl=60 of load_dashboard_data, ttl=300 of the
\* prediction functions, ttl=600 of the other functions it calls
DashboardTtl == 60
PredictionsTtl == 300
AnalyticsTtl == 600
TeamStatsTtl == 3600

\* seconds between two looks at the clock
TickSeconds == 50

Ttl(fn) ==
    CASE fn = "load_dashboard_data" -> DashboardTtl
      [] fn \in {"get_enhanced_predictions", "get_last_session_predictions",
                 "get_recent_matches"} -> PredictionsTtl
      [] fn \in {"get_league_table", "get_league_table_leagues",
                 "get_league_table_seasons", "get_league_table_teams"} -> PredictionsTtl
      [] fn = "get_team_statistics" -> TeamStatsTtl
      [] OTHER -> AnalyticsTtl

\* the memoized value of fn for the arguments key is still alive
Hit(c, fn, key) == \E e \in c : e.fn = fn /\ e.key = key /\ e.age < Ttl(fn)

\* the value computed for fn(key) replaces what was kept for it
Memoize(c, fn, key, v) ==
    {e \in c : ~(e.fn = fn /\ e.key = key)}
        \cup {[fn |-> fn, key |-> key, age |-> 0, val |-> v]}

\* a call of a function decorated with st.cache_data: the kept value on a
\* hit; on a miss the body runs (with the memo it may itself fill) and its
\* value is kept, whatever it is
Cached(c, fn, key, Body(_)) ==
    IF Hit(c, fn, key)
    THEN [cache |-> c, val |-> (CHOOSE e \in c : e.fn = fn /\ e.key = key).val]
    ELSE Let(Body(c), LAMBDA r : [cache |-> Memoize(r.cache, fn, key, r.val), val |-> r.val])

\* the arguments of a call without arguments, and of get_recent_matches(50)
NoArgs == [limit |-> 0]
RecentArgs == [limit |-> 50]

\* get_last_session_predictions: get_enhanced_predictions(last_session_only=True),
\* both memoized
GetLastSessionPredictions(c0) ==
    Cached(c0, "get_last_session_predictions", NoArgs, LAMBDA c1 :
        Cached(c1, "get_enhanced_predictions", LastSessionArgs, LAMBDA c2 :
            [cache |-> c2,
             val |-> EnhancedQuery(LastSessionArgs, SessionLookup(LastSessionArgs, FALSE),
                                   FALSE).ret]))

\* the body of load_dashboard_data: seven memoized calls, in this order
LoadDashboardDataBody(c0, f) ==
    Let(Cached(c0, "get_raw_data_key_metrics", f, LAMBDA c :
            [cache |-> c, val |-> GetRawDataKeyMetrics(f, FALSE, FALSE).ret]),
        LAMBDA raw_data_metrics :
    Let(Cached(raw_data_metrics.cache, "get_raw_data_analytics", f, LAMBDA c :
            [cache |-> c, val |-> GetRawDataAnalytics(f, FALSE).ret]),
        LAMBDA raw_data_analytics :
    Let(GetLastSessionPredictions(raw_data_analytics.cache), LAMBDA predictions :
    Let(Cached(predictions.cache, "get_model_performance", NoArgs, LAMBDA c :
            [cache |-> c, val |-> GetModelPerformance(FALSE).ret]),
        LAMBDA model_performance :
    Let(Cached(model_performance.cache, "get_league_statistics", NoArgs, LAMBDA c :
            [cache |-> c, val |-> GetLeagueStatistics(FALSE).ret]),
        LAMBDA league_stats :
    Let(Cached(league_stats.cache, "get_teams_with_coordinates", NoArgs, LAMBDA c :
            [cache |-> c, val |-> GetTeamsWithCoordinates(FALSE).ret]),
        LAMBDA teams_coords :
    Let(Cached(teams_coords.cache, "get_recent_matches", RecentArgs, LAMBDA c :
            [cache |-> c, val |-> GetRecentMatches(RecentArgs.limit, FALSE).ret]),
        LAMBDA recent_matches :
        [cache |-> recent_matches.cache,
         val |-> [raw_data_metrics |-> raw_data_metrics.val,
                  raw_data_analytics |-> raw_data_analytics.val,
                  predictions |-> predictions.val,
                  model_performance |-> model_performance.val,
                  league_stats |-> league_stats.val,
                  teams_coords |-> teams_coords.val,
                  recent_matches |-> recent_matches.val]])))))))

\* load_dashboard_data(filters), memoized on the filter set
LoadDashboardData(c0, f) ==
    Cached(c0, "load_dashboard_data", f, LAMBDA c : LoadDashboardDataBody(c, f))

\* the filter sets the sidebar hands over: lists or None, the dates as text
DashFilters ==
    {[NoFilters EXCEPT !.date_from = PyStr("D1"), !.date_to = PyStr("D3")],
     [NoFilters EXCEPT !.league = PyList(<<"L1">>),
                       !.date_from = PyStr("D1"), !.date_to = PyStr("D3")]}

\* data = load_dashboard_data(filters) in main
LoadDashboardDataCall ==
    /\ pc = "idle" /\ call.fn = "none"
    /\ \E f \in DashFilters :
         Let(LoadDashboardData(cache, f), LAMBDA r :
             /\ Return("load_dashboard_data", f, <<>>, Res(<<>>, <<>>, FALSE, r.val))
             /\ cache' = r.cache)
    /\ UNCHANGED <<dbUp, raw, matches, preds, pc, ep, chart, launch, now, app>>

\* clock readings followed
MaxTicks == 6

\* time passes; an entry older than its ttl is no longer used
Tick ==
    /\ now < MaxTicks
    /\ now' = now + 1
    /\ cache' = {[e EXCEPT !.age = @ + TickSeconds] :
                    e \in {x \in cache : x.age + TickSeconds < Ttl(x.fn)}}
    /\ UNCHANGED <<dbUp, raw, matches, preds, pc, ep, call, notices, chart, conns, launch, app>>

InitDash ==
    /\ dbUp = TRUE
    /\ raw = FilterStore
    /\ matches = SampleMatches
    /\ preds = {}
    /\ pc = "idle"
    /\ ep = NoEp
    /\ call = NoCall
    /\ notices = <<>>
    /\ chart = NoChart
    /\ conns = 0
    /\ launch = NoLaunch
    /\ cache = NoCache
    /\ now = 0
    /\ app = NoApp

\* the first model run writes its session while the dashboard is in use
FirstSession == preds = {} /\ InsertSession

NextDash ==
    \/ LoadDashboardDataCall
    \/ Tick
    \/ FirstSession
    \/ ScriptRunEnds

SpecDash == InitDash /\ [][NextDash]_vars

----------------------------------------------------------------------------
(* Properties of load_dashboard_data *)

\* the entries of the returned mapping the analysis filters must not affect
Supporting(d) ==
    [k \in {"predictions", "model_performance", "league_stats", "teams_coords",
            "recent_matches"} |-> d[k]]

\* C18: the analysis filters affect key metrics and analytics only: two
\* evaluations of load_dashboard_data against the same store and the same
\* cache that differ only in the filter set return equal predictions,
\* model_performance, league_stats, teams_coords and recent_matches
C18_FiltersAffectAnalysisOnly ==
    \A f1, f2 \in DashFilters :
        Supporting(LoadDashboardData(cache, f1).val)
            = Supporting(LoadDashboardData(cache, f2).val)

----------------------------------------------------------------------------
(* app.py main: one browser session and its script runs *)

\* None, or a row position counted from 0: st.session_state.selected_match_idx
\* and the point_index of the selected point of the map
NoIdx == [none |-> TRUE, n |-> 0]
PointIndex(k) == [none |-> FALSE, n |-> k]

\* None, or the tuple (start, end) of st.sidebar.date_input
NoRange == [none |-> TRUE, from |-> "", to |-> ""]
DateRange(a, b) == [none |-> FALSE, from |-> a, to |-> b]

\* a keyed widget nobody has touched: it reports its default; params are the
\* arguments it was last rendered with
NoWidget(v, p) == [touched |-> FALSE, val |-> v, params |-> p]

NoLeagueParams == [options |-> <<>>, default |-> <<>>]

\* the session as the browser opens the page: st.session_state holds no key
\* and no widget has a value
NewSession ==
    [pc |-> "start", test |-> "none", keys |-> {},
     selected_leagues |-> <<>>, selected_date_range |-> NoRange,
     selected_match_idx |-> NoIdx,
     date_filter |-> NoWidget(NoRange, NoRange),
     league_filter |-> NoWidget(<<>>, NoLeagueParams),
     map_chart |-> NoWidget(NoIdx, <<>>),
     clicked |-> <<>>, stored |-> FALSE, cleared |-> FALSE, event |-> "other",
     reruns |-> 0,
     issued |-> {}, writes |-> {}, map |-> "none", panel |-> FALSE, shown |-> <<>>]

\* a script run starts at the top of main: what the run has done so far is
\* empty; st.session_state and the widget values stay
StartRun(a, ev, n) ==
    [a EXCEPT !.pc = "start", !.test = "none", !.event = ev, !.reruns = n,
              !.issued = {}, !.writes = {}, !.map = "none", !.panel = FALSE,
              !.shown = <<>>]

\* what a keyed widget reports in a run: its default until the user sets it;
\* the user's value while it is rendered with the same arguments; when the
\* arguments changed, the Streamlit version decides between the default (the
\* widget is a new one) and the user's value (if it is still admissible)
WidgetOutcomes(w, params, default, valid) ==
    IF ~w.touched THEN {NoWidget(default, params)}
    ELSE IF w.params = params THEN {w}
    ELSE {NoWidget(default, params)}
            \cup (IF valid THEN {[w EXCEPT !.params = params]} ELSE {})

\* st.session_state.<key> = value
Assign(a, key) == [a EXCEPT !.keys = @ \cup {key}, !.writes = @ \cup {key}]

\* the widgets after st.stop(): none was rendered in the run; the Streamlit
\* version decides whether their values survive
Stopped(a, kept) ==
    IF kept THEN [a EXCEPT !.pc = "stopped"]
    ELSE [a EXCEPT !.pc = "stopped",
                   !.date_filter = NoWidget(NoRange, NoRange),
                   !.league_filter = NoWidget(<<>>, NoLeagueParams),
                   !.map_chart = NoWidget(NoIdx, <<>>)]

\* variant: main going on after a failed connection test
MainTestConnectionNoStop ==
    /\ app.pc = "start"
    /\ Let(TestDatabaseConnection(FALSE), LAMBDA t :
           /\ conns' = conns + t.left
           /\ app' = [app EXCEPT !.pc = "options",
                                 !.test = IF t.ret THEN "true" ELSE "false",
                                 !.issued = @ \cup {"test_database_connection"}])
    /\ UNCHANGED <<dbUp, raw, matches, preds, pc, ep, call, notices, chart, launch, cache, now>>

\* main, lines 787-871: the page header, then the connection test; st.stop()
\* ends the run when it returns False
MainTestConnection ==
    /\ app.pc = "start"
    /\ \E kept \in BOOLEAN :
         Let(TestDatabaseConnection(FALSE), LAMBDA t :
         Let([app EXCEPT !.test = IF t.ret THEN "true" ELSE "false",
                         !.issued = @ \cup {"test_database_connection"}], LAMBDA a :
             /\ conns' = conns + t.left
             /\ app' = IF t.ret THEN [a EXCEPT !.pc = "options"] ELSE Stopped(a, kept)))
    /\ UNCHANGED <<dbUp, raw, matches, preds, pc, ep, call, notices, chart, launch, cache, now>>

\* the three option lists of the analysis filters, each memoized (a kept
\* list is a PyList)
FilterOptions(c0) ==
    Let(Cached(c0, "get_raw_data_leagues", NoArgs, LAMBDA c :
            [cache |-> c, val |-> PyList(GetRawDataLeagues(FALSE).ret)]), LAMBDA raw_leagues :
    Let(Cached(raw_leagues.cache, "get_raw_data_seasons", NoArgs, LAMBDA c :
            [cache |-> c, val |-> PyList(GetRawDataSeasons(FALSE).ret)]), LAMBDA raw_seasons :
    Let(Cached(raw_seasons.cache, "get_raw_data_teams", NoArgs, LAMBDA c :
            [cache |-> c, val |-> PyList(GetRawDataTeams(FALSE).ret)]), LAMBDA raw_teams :
        [cache |-> raw_teams.cache,
         val |-> [leagues |-> raw_leagues.val.l, seasons |-> raw_seasons.val.l,
                  teams |-> raw_teams.val.l]])))

\* main, lines 873-946: the option lists and the analysis filter widgets,
\* which the user of this session leaves at their defaults
MainFilterOptions ==
    /\ app.pc = "options"
    /\ cache' = FilterOptions(cache).cache
    /\ app' = [app EXCEPT !.pc = "load",
                          !.issued = @ \cup {"get_raw_data_leagues", "get_raw_data_seasons",
                                             "get_raw_data_teams"}]
    /\ UNCHANGED <<dbUp, raw, matches, preds, pc, ep, call, notices, chart, conns, launch, now>>

\* filters as main builds them from untouched widgets: no list, the default dates
DefaultFilters == [NoFilters EXCEPT !.date_from = PyStr("D1"), !.date_to = PyStr("D3")]

\* the mapping the except clause of load_dashboard_data returns
LoadDashboardDataExcept ==
    [predictions |-> EmptyDF, model_performance |-> EmptyDF, league_stats |-> EmptyDF,
     teams_coords |-> EmptyDF, recent_matches |-> EmptyDF]

\* load_dashboard_data(filters) with its try ... except: raises is an
\* exception escaping the first call of the body
LoadDashboardDataOrExcept(c0, f, raises) ==
    IF raises
    THEN Cached(c0, "load_dashboard_data", f, LAMBDA c :
             [cache |-> c, val |-> LoadDashboardDataExcept])
    ELSE LoadDashboardData(c0, f)

\* the keys of data main subscripts outside any try and without a test
MainReads == {"predictions", "raw_data_metrics", "raw_data_analytics"}

\* lines 953-957: the two keys of the predictions filters, if absent
SessionInit(a) ==
    Let(IF "selected_leagues" \in a.keys THEN a
        ELSE [Assign(a, "selected_leagues") EXCEPT !.selected_leagues = <<>>], LAMBDA a1 :
        IF "selected_date_range" \in a1.keys THEN a1
        ELSE [Assign(a1, "selected_date_range") EXCEPT !.selected_date_range = NoRange])

Members(q) == {q[i] : i \in DOMAIN q}

\* df[df['National League'].isin(leagues)]
InLeagues(rows, leagues) == SelectSeq(rows, LAMBDA r : r.league \in Members(leagues))

\* df[(df['Game Date'].dt.date >= start_date) & (df['Game Date'].dt.date <= end_date)]
InRange(rows, dr) ==
    SelectSeq(rows, LAMBDA r : /\ Ord(r.game_date) >= Ord(dr.from)
                               /\ Ord(r.game_date) <= Ord(dr.to))

MinDate(rows) ==
    CHOOSE d \in {r.game_date : r \in Members(rows)} :
        \A r \in Members(rows) : Ord(d) <= Ord(r.game_date)

MaxDate(rows) ==
    CHOOSE d \in {r.game_date : r \in Members(rows)} :
        \A r \in Members(rows) : Ord(d) >= Ord(r.game_date)

\* lines 967-978: min_date and max_date of the predictions, of those of the
\* selected leagues when there are any
DateBounds(rows, leagues) ==
    Let(InLeagues(rows, leagues), LAMBDA league_filtered_data :
        IF leagues # <<>> /\ league_filtered_data # <<>>
        THEN DateRange(MinDate(league_filtered_data), MaxDate(league_filtered_data))
        ELSE DateRange(MinDate(rows), MaxDate(rows)))

Within(dr, bounds) ==
    /\ Ord(bounds.from) <= Ord(dr.from)
    /\ Ord(dr.from) <= Ord(dr.to)
    /\ Ord(dr.to) <= Ord(bounds.to)

\* lines 980-990: the date widget and selected_date_range
SidebarDates(a, rows) ==
    Let(DateBounds(rows, a.selected_leagues), LAMBDA bounds :
        {[Assign(a, "selected_date_range")
              EXCEPT !.date_filter = w, !.selected_date_range = w.val] :
            w \in WidgetOutcomes(a.date_filter, bounds, bounds,
                                 Within(a.date_filter.val, bounds))})

\* lines 995-1007: sorted(available_data['National League'].dropna().unique())
AvailableLeagues(rows, dr) ==
    OrderedBy({r.league : r \in Members(IF dr.none THEN rows ELSE InRange(rows, dr))}, FALSE)

\* lines 1009-1014
DefaultLeagues(selected, available) ==
    IF selected = <<>> THEN available
    ELSE SelectSeq(selected, LAMBDA l : l \in Members(available))

\* lines 1016-1025: the league widget and selected_leagues
SidebarLeagues(a, rows) ==
    Let(AvailableLeagues(rows, a.selected_date_range), LAMBDA available_leagues :
    Let([options |-> available_leagues,
         default |-> DefaultLeagues(a.selected_leagues, available_leagues)], LAMBDA p :
        {[Assign(a, "selected_leagues")
              EXCEPT !.league_filter = w, !.selected_leagues = w.val] :
            w \in WidgetOutcomes(a.league_filter, p, p.default,
                                 Members(a.league_filter.val) \subseteq Members(p.options))}))

\* lines 959-1025: the sidebar of the predictions filters, rendered when
\* there are predictions; widgets that are not rendered lose their values
Sidebar(a, rows) ==
    IF rows = <<>>
    THEN {[a EXCEPT !.date_filter = NoWidget(NoRange, NoRange),
                    !.league_filter = NoWidget(<<>>, NoLeagueParams)]}
    ELSE UNION {SidebarLeagues(a1, rows) : a1 \in SidebarDates(a, rows)}

\* lines 1066-1082: the predictions of the table, which the map shows too
FilteredPredictions(rows, dr, leagues) ==
    Let(IF ~dr.none THEN InRange(rows, dr) ELSE rows, LAMBDA by_date :
        IF leagues # <<>> THEN InLeagues(by_date, leagues) ELSE by_date)

\* LEFT JOIN teams_general_info tgi ON ep.home_team = tgi.team, then
\* dropna(subset=['latitude', 'longitude'])
HasCoords(r) ==
    \E t \in TeamsGeneralInfo :
        t.team = r.home_team /\ ~t.longitude.null /\ ~t.latitude.null

MatchesWithCoords(map_data) == SelectSeq(map_data, HasCoords)

\* line 1354: the selection the chart reports; a chart drawn from other
\* matches is, depending on the Streamlit version, a new chart without selection
ChartOutcomes(a, coords) == WidgetOutcomes(a.map_chart, coords, NoIdx, TRUE)

\* lines 1357-1358
MatchIdxInit(a) ==
    IF "selected_match_idx" \in a.keys THEN a
    ELSE [Assign(a, "selected_match_idx") EXCEPT !.selected_match_idx = NoIdx]

\* st.rerun(): the run ends here and main starts again from the top; event
\* stays the user event the reruns follow
Rerun(a) == StartRun(a, a.event, a.reruns + 1)

\* lines 1379-1598: the detail panel of the selected match; iloc raises
\* IndexError for a position past the last row, which the except clause
\* reports; the button returns True in the run its click started (the first
\* run after the event "clear").  stats: the
\* match get_team_statistics was called for
DetailPanel(a, coords) ==
    IF a.selected_match_idx.none \/ a.selected_match_idx.n >= Len(coords)
    THEN [app |-> [a EXCEPT !.pc = "league"], stats |-> <<>>]
    ELSE Let(<<coords[a.selected_match_idx.n + 1]>>, LAMBDA selected_match :
         Let([a EXCEPT !.panel = TRUE, !.shown = selected_match,
                       !.issued = @ \cup {"get_team_statistics"}], LAMBDA a1 :
             [app |-> IF a.event = "clear" /\ a.reruns = 0
                      THEN Rerun([Assign(a1, "selected_match_idx")
                                     EXCEPT !.selected_match_idx = NoIdx, !.cleared = TRUE])
                      ELSE [a1 EXCEPT !.pc = "league"],
              stats |-> selected_match]))

\* variant: st.rerun() whenever the chart reports a selected point
SelectionAlwaysReruns(a, coords) ==
    IF ~a.map_chart.val.none
    THEN [app |-> Rerun([Assign(a, "selected_match_idx")
                            EXCEPT !.selected_match_idx = a.map_chart.val,
                                   !.stored = TRUE]),
          stats |-> <<>>]
    ELSE DetailPanel(a, coords)

\* lines 1360-1376: a reported point that is not the stored one is stored
\* and the script rerun; otherwise the run goes on to the panel
Selection(a, coords) ==
    IF ~a.map_chart.val.none /\ a.selected_match_idx # a.map_chart.val
    THEN [app |-> Rerun([Assign(a, "selected_match_idx")
                            EXCEPT !.selected_match_idx = a.map_chart.val,
                                   !.stored = TRUE]),
          stats |-> <<>>]
    ELSE DetailPanel(a, coords)

\* lines 1276-1606: the map of the filtered predictions
MapSection(a, rows) ==
    IF rows = <<>>
    THEN {[app |-> [a EXCEPT !.pc = "league", !.map = "nopreds",
                             !.map_chart = NoWidget(NoIdx, <<>>)],
           stats |-> <<>>]}
    ELSE Let(MatchesWithCoords(FilteredPredictions(rows, a.selected_date_range,
                                                   a.selected_leagues)),
             LAMBDA matches_with_coords :
             IF matches_with_coords = <<>>
             THEN {[app |-> [a EXCEPT !.pc = "league", !.map = "nocoords",
                                      !.map_chart = NoWidget(NoIdx, <<>>)],
                    stats |-> <<>>]}
             ELSE {Selection([MatchIdxInit(a) EXCEPT !.map = "chart", !.map_chart = w],
                             matches_with_coords) :
                      w \in ChartOutcomes(a, matches_with_coords)})

\* get_team_statistics(home_team, away_team) of the panel, memoized
TeamStatisticsOf(m) == [home_team |-> m.home_team, away_team |-> m.away_team, season |-> PyNone]

PanelStatistics(c0, stats) ==
    IF stats = <<>> THEN c0
    ELSE Cached(c0, "get_team_statistics", TeamStatisticsOf(stats[1]), LAMBDA c :
             [cache |-> c,
              val |-> GetTeamStatistics(TeamStatisticsOf(stats[1]), FALSE, FALSE).ret]).cache

\* create_goals_shots_chart(filters), line 1049
GoalsShotsChart(c0, f) ==
    Cached(c0, "get_goals_shots_filtered_data", f, LAMBDA c :
        [cache |-> c, val |-> GetGoalsShotsFilteredData(f, FALSE).ret]).cache

\* main, lines 948-1606: load_dashboard_data, the predictions filters, the
\* key metrics and charts, the table and the map; data['raw_data_metrics']
\* raises KeyError out of main when the mapping has no such key
MainDashboard ==
    /\ app.pc = "load"
    /\ \E raises \in BOOLEAN :
         Let(LoadDashboardDataOrExcept(cache, DefaultFilters, raises), LAMBDA data :
         Let([app EXCEPT !.issued = @ \cup {"load_dashboard_data"}], LAMBDA a0 :
             \E a1 \in Sidebar(SessionInit(a0), data.val.predictions.rows) :
                 IF ~(MainReads \subseteq DOMAIN data.val)
                 THEN /\ app' = [a1 EXCEPT !.pc = "failed"]
                      /\ cache' = data.cache
                 ELSE \E m \in MapSection([a1 EXCEPT !.issued = @ \cup
                                              {"get_goals_shots_filtered_data"}],
                                          data.val.predictions.rows) :
                          /\ app' = m.app
                          /\ cache' = PanelStatistics(
                                          GoalsShotsChart(data.cache, DefaultFilters),
                                          m.stats)))
    /\ UNCHANGED <<dbUp, raw, matches, preds, pc, ep, call, notices, chart, conns, launch, now>>

\* the filter set of get_league_table from untouched widgets: the first
\* season of the list, no league, no team
LeagueTableDefault(seasons) ==
    [NoFilters EXCEPT !.season = IF seasons # <<>> THEN PyList(<<seasons[1]>>) ELSE PyNone]

LeagueTableSection(c0) ==
    Let(Cached(c0, "get_league_table_leagues", NoArgs, LAMBDA c :
            [cache |-> c, val |-> PyList(GetLeagueTableLeagues(FALSE).ret)]), LAMBDA lt_leagues :
    Let(Cached(lt_leagues.cache, "get_league_table_seasons", NoArgs, LAMBDA c :
            [cache |-> c, val |-> PyList(GetLeagueTableSeasons(FALSE).ret)]), LAMBDA lt_seasons :
    Let(Cached(lt_seasons.cache, "get_league_table_teams", NoArgs, LAMBDA c :
            [cache |-> c, val |-> PyList(GetLeagueTableTeams(FALSE).ret)]), LAMBDA lt_teams :
    Let(LeagueTableDefault(lt_seasons.val.l), LAMBDA f :
        Cached(lt_teams.cache, "get_league_table", f, LAMBDA c :
            [cache |-> c, val |-> GetLeagueTable(f, FALSE).ret])))))

\* main, lines 1608-1790: the league table viewer; the run ends and with it
\* the reruns of the last user event
MainLeagueTable ==
    /\ app.pc = "league"
    /\ cache' = LeagueTableSection(cache).cache
    /\ app' = [app EXCEPT !.pc = "done", !.event = "other", !.reruns = 0,
                          !.issued = @ \cup {"get_league_table_leagues",
                                             "get_league_table_seasons",
                                             "get_league_table_teams", "get_league_table"}]
    /\ UNCHANGED <<dbUp, raw, matches, preds, pc, ep, call, notices, chart, conns, launch, now>>

\* the page is at rest: the last run ended, or was stopped, or failed
AtRest == app.pc \in {"done", "stopped", "failed"}

\* a user event starts a run
UserEvent(a, ev) == [StartRun(a, ev, 0) EXCEPT !.cleared = FALSE]

\* the user clicks a pin of the map the last run drew
UserClicksPoint ==
    /\ app.pc = "done" /\ app.map = "chart"
    /\ \E i \in 0..(Len(app.map_chart.params) - 1) :
         app' = [UserEvent(app, "select")
                    EXCEPT !.map_chart = [touched |-> TRUE, val |-> PointIndex(i),
                                          params |-> app.map_chart.params],
                           !.clicked = <<app.map_chart.params[i + 1]>>,
                           !.stored = FALSE]
    /\ UNCHANGED <<dbUp, raw, matches, preds, pc, ep, call, notices, chart, conns, launch, cache, now>>

\* the user presses "Clear Selection" in the panel the last run drew
UserClearsSelection ==
    /\ app.pc = "done" /\ app.panel
    /\ app' = UserEvent(app, "clear")
    /\ UNCHANGED <<dbUp, raw, matches, preds, pc, ep, call, notices, chart, conns, launch, cache, now>>

\* the user changes the leagues of the predictions filter
UserSetsLeagues ==
    /\ app.pc = "done" /\ app.map # "nopreds"
    /\ \E S \in SUBSET Members(app.league_filter.params.options) :
         /\ OrderedBy(S, FALSE) # app.league_filter.val
         /\ app' = [UserEvent(app, "other")
                       EXCEPT !.league_filter = [touched |-> TRUE, val |-> OrderedBy(S, FALSE),
                                                 params |-> app.league_filter.params]]
    /\ UNCHANGED <<dbUp, raw, matches, preds, pc, ep, call, notices, chart, conns, launch, cache, now>>

\* the user changes the date range of the predictions filter
UserSetsDateRange ==
    /\ app.pc = "done" /\ app.map # "nopreds"
    /\ \E x, y \in {"D1", "D2", "D3"} :
         /\ Within(DateRange(x, y), app.date_filter.params)
         /\ DateRange(x, y) # app.date_filter.val
         /\ app' = [UserEvent(app, "other")
                       EXCEPT !.date_filter = [touched |-> TRUE, val |-> DateRange(x, y),
                                               params |-> app.date_filter.params]]
    /\ UNCHANGED <<dbUp, raw, matches, preds, pc, ep, call, notices, chart, conns, launch, cache, now>>

\* the user reruns the script (menu, or the R key)
UserReruns ==
    /\ AtRest
    /\ app' = UserEvent(app, "other")
    /\ UNCHANGED <<dbUp, raw, matches, preds, pc, ep, call, notices, chart, conns, launch, cache, now>>

\* the environment between two runs: the store goes away or comes back, a
\* model run writes the first session, a later one a second session after
\* a first one of a single match
Outage == AtRest /\ DbGoesDown
Recovery == AtRest /\ DbComesUp
NewPredictions == AtRest /\ Cardinality(preds) = 1 /\ InsertSession

\* the session is left alone for longer than every time-to-live
LongPause ==
    /\ AtRest /\ cache # NoCache
    /\ cache' = NoCache
    /\ UNCHANGED <<dbUp, raw, matches, preds, pc, ep, call, notices, chart, conns, launch, now, app>>

InitApp ==
    /\ dbUp \in BOOLEAN
    /\ raw = FilterStore
    /\ matches = SampleMatches
    /\ preds = {}
    /\ pc = "idle"
    /\ ep = NoEp
    /\ call = NoCall
    /\ notices = <<>>
    /\ chart = NoChart
    /\ conns = 0
    /\ launch = NoLaunch
    /\ cache = NoCache
    /\ now = 0
    /\ app = NewSession

NextApp ==
    \/ MainTestConnection
    \/ MainFilterOptions
    \/ MainDashboard
    \/ MainLeagueTable
    \/ UserClicksPoint
    \/ UserClearsSelection
    \/ UserSetsLeagues
    \/ UserSetsDateRange
    \/ UserReruns
    \/ Outage
    \/ Recovery
    \/ AtRest /\ FirstSession
    \/ NewPredictions
    \/ LongPause

SpecApp == InitApp /\ [][NextApp]_vars

----------------------------------------------------------------------------
(* Properties of app.main *)

\* C21: in a run of main in which test_database_connection returned False
\* the run was stopped there: no filter-option, dashboard or league-table
\* call was issued in it and no st.session_state key was initialised or written
C21_StopBeforeQueries ==
    app.test = "false" =>
        /\ app.pc = "stopped"
        /\ app.issued \subseteq {"test_database_connection"}
        /\ app.writes = {}

\* a run stopped by the failed test in a session whose earlier run had
\* initialised the keys and selected a match
C21_Witness ==
    /\ app.test = "false" /\ app.pc = "stopped"
    /\ "selected_match_idx" \in app.keys /\ ~app.selected_match_idx.none

\* the same fixture: rows of different sessions may describe one match
SameMatch(r1, r2) ==
    /\ r1.home_team = r2.home_team /\ r1.away_team = r2.away_team
    /\ r1.game_date = r2.game_date /\ r1.league = r2.league

\* C22: at the end of every run that drew the map, a selected_match_idx
\* that is not None is a row position of the run's matches_with_coords and
\* that row is the match the user clicked
C22_SelectedIsClicked ==
    (app.pc = "done" /\ app.map = "chart" /\ ~app.selected_match_idx.none) =>
        /\ app.selected_match_idx.n < Len(app.map_chart.params)
        /\ app.clicked # <<>>
        /\ SameMatch(app.map_chart.params[app.selected_match_idx.n + 1], app.clicked[1])

\* the selection check of lines 1371-1373 ends the run with st.rerun()
SelectionRerun ==
    app.pc = "load" /\ app'.pc = "start" /\ ~app'.selected_match_idx.none

C24_ClearedStaysCleared ==
    (app.pc = "done" /\ app.cleared) => (app.selected_match_idx.none /\ ~app.panel)

\* C25: load_dashboard_data returns, on its exception path too, a mapping
\* with every key main reads without a guard: every mapping it has returned
\* (and st.cache_data keeps) holds raw_data_metrics, raw_data_analytics and
\* predictions, and no run of main fails on a missing key
C25_EveryKeyReturned ==
    /\ \A e \in cache : e.fn = "load_dashboard_data" => MainReads \subseteq DOMAIN e.val
    /\ app.pc # "failed"

----------------------------------------------------------------------------
(* Memoized db.py functions while the store goes away and comes back *)

\* the memoized functions followed: get_raw_data_key_metrics (ttl 600) and
\* get_model_performance (ttl 600)
MemoValue(fn, f) ==
    IF fn = "get_raw_data_key_metrics" THEN GetRawDataKeyMetrics(f, FALSE, FALSE).ret
    ELSE GetModelPerformance(FALSE).ret

MemoCalls ==
    {[fn |-> "get_raw_data_key_metrics", key |-> f] : f \in DashFilters}
        \cup {[fn |-> "get_model_performance", key |-> NoArgs]}

\* a script run calls one of them
MemoizedCall ==
    /\ pc = "idle" /\ call.fn = "none"
    /\ \E m \in MemoCalls :
         Let(Cached(cache, m.fn, m.key, LAMBDA c :
                 [cache |-> c, val |-> MemoValue(m.fn, m.key)]), LAMBDA r :
             /\ Return(m.fn, m.key, <<>>, Res(<<>>, <<>>, FALSE, r.val))
             /\ cache' = r.cache)
    /\ UNCHANGED <<dbUp, raw, matches, preds, pc, ep, chart, launch, now, app>>

InitMemo ==
    /\ dbUp \in BOOLEAN
    /\ raw = FilterStore
    /\ matches = SampleMatches
    /\ preds = {}
    /\ pc = "idle"
    /\ ep = NoEp
    /\ call = NoCall
    /\ notices = <<>>
    /\ chart = NoChart
    /\ conns = 0
    /\ launch = NoLaunch
    /\ cache = NoCache
    /\ now = 0
    /\ app = NoApp

NextMemo ==
    \/ MemoizedCall
    \/ ScriptRunEnds
    \/ DbGoesDown
    \/ DbComesUp
    \/ Tick

SpecMemo == InitMemo /\ [][NextMemo]_vars

\* C26: a transient failure is not remembered: a memoized function called
\* while the store is reachable returns the store's data, not the no-data
\* value kept from a call made while the store was unreachable, within the
\* function's time-to-live too
C26_FailureNotRemembered ==
    (call.fn \in {"get_raw_data_key_metrics", "get_model_performance"} /\ dbUp) =>
        call.ret = MemoValue(call.fn, call.args)

====
